---- MODULE Spec2Model ----
(***************************************************************************)
(* State-machine model of the excel-to-json conversion pipeline            *)
(* (SpreadsheetConverter.convertToJson and the components it drives).      *)
(*                                                                         *)
(* Text is modelled as a sequence of one-character strings, so that the    *)
(* scanners of the source (trim, split, the quote-aware field counters and *)
(* the field splitter) are computed character by character as the code     *)
(* computes them.                                                          *)
(***************************************************************************)
EXTENDS Integers, Sequences, FiniteSets, TLC

(***************************************************************************)
(* Bounds of the explored input space.                                     *)
(***************************************************************************)
MaxLines == 3
MaxLeadingBlankLines == 10
MaxSheets == 5
MaxSelectionLength == 2
MaxConcurrencyLimit == 3
MaxColumns == 2
MaxDataRows == 2
MaxCleanRows == 2
MaxNestRows == 2
MaxValidatedRows == 2
MaxHeaders == 3
MaxTransformColumns == 2
MaxStreamRows == 3
MaxBatchSize == 2
MaxSharedRows == 2
MaxBackwardTurns == 2
MaxParseCalls == 2

(***************************************************************************)
(* Characters.                                                             *)
(***************************************************************************)
NL == "\n"
TAB == "\t"
QUOTE == "\""
BSLASH == "\\"

Letters == {"a", "b", "c", "h", "l", "p", "s", "t", "v", "x", "y"}
Digits == {"1"}

IsWhitespace(c) == c \in {" ", TAB, NL, "\r"}

(***************************************************************************)
(* String helpers of generic-functions.mlai, as used by the source.        *)
(***************************************************************************)
RECURSIVE trimStart(_)
trimStart(s) ==
    IF s # <<>> /\ IsWhitespace(Head(s)) THEN trimStart(Tail(s)) ELSE s

RECURSIVE trimEnd(_)
trimEnd(s) ==
    IF s # <<>> /\ IsWhitespace(s[Len(s)])
    THEN trimEnd(SubSeq(s, 1, Len(s) - 1))
    ELSE s

trim(s) == trimEnd(trimStart(s))

startsWith(s, p) == Len(s) >= Len(p) /\ SubSeq(s, 1, Len(p)) = p

endsWith(s, p) ==
    Len(s) >= Len(p) /\ SubSeq(s, Len(s) - Len(p) + 1, Len(s)) = p

\* split(s, sep): the pieces of s between the occurrences of the character sep
RECURSIVE splitFrom(_, _, _)
splitFrom(s, sep, cur) ==
    IF s = <<>> THEN <<cur>>
    ELSE IF Head(s) = sep THEN <<cur>> \o splitFrom(Tail(s), sep, <<>>)
    ELSE splitFrom(Tail(s), sep, Append(cur, Head(s)))

split(s, sep) == splitFrom(s, sep, <<>>)

\* slice(xs, from, to) with 0-based from (inclusive) and to (exclusive)
slice(xs, from, to) ==
    SubSeq(xs, from + 1, IF to < Len(xs) THEN to ELSE Len(xs))

RECURSIVE filterNonBlank(_)
filterNonBlank(lines) ==
    IF lines = <<>> THEN <<>>
    ELSE IF trim(Head(lines)) # <<>>
         THEN <<Head(lines)>> \o filterNonBlank(Tail(lines))
         ELSE filterNonBlank(Tail(lines))

\* join(lines, NL)
RECURSIVE joinLines(_)
joinLines(lines) ==
    IF lines = <<>> THEN <<>>
    ELSE IF Len(lines) = 1 THEN Head(lines)
    ELSE Head(lines) \o <<NL>> \o joinLines(Tail(lines))

Contains(s, chars) == \E i \in 1..Len(s) : s[i] \in chars

Min(S) == CHOOSE m \in S : \A n \in S : m <= n

(***************************************************************************)
(* new URL(input), the platform's URL parser, for the shapes the inputs    *)
(* take: surrounding whitespace is trimmed and tabs and line breaks are    *)
(* removed, a string without a scheme does not parse (there is no base     *)
(* URL), and an http/https URL needs a non-empty host without forbidden    *)
(* host characters.  Credentials and ports do not occur in the inputs.     *)
(* The result is the protocol, or "" when the constructor throws.          *)
(***************************************************************************)
RECURSIVE stripTabsAndNewlines(_)
stripTabsAndNewlines(s) ==
    IF s = <<>> THEN <<>>
    ELSE IF Head(s) \in {TAB, NL, "\r"} THEN stripTabsAndNewlines(Tail(s))
    ELSE <<Head(s)>> \o stripTabsAndNewlines(Tail(s))

IsSchemeChar(c) == c \in Letters \/ c \in Digits \/ c \in {"+", "-", "."}

SchemeEnd(s) ==
    IF s = <<>> \/ Head(s) \notin Letters THEN 0
    ELSE LET cand == {i \in 2..Len(s) :
                         /\ s[i] = ":"
                         /\ \A j \in 2..(i - 1) : IsSchemeChar(s[j])}
         IN  IF cand = {} THEN 0 ELSE Min(cand)

RECURSIVE skipSlashes(_)
skipSlashes(s) ==
    IF s # <<>> /\ Head(s) \in {"/", BSLASH} THEN skipSlashes(Tail(s)) ELSE s

RECURSIVE hostOf(_)
hostOf(s) ==
    IF s = <<>> \/ Head(s) \in {"/", BSLASH, "?", "#"} THEN <<>>
    ELSE <<Head(s)>> \o hostOf(Tail(s))

ForbiddenHostChars == {" ", "<", ">", "|", "^", "[", "]", "@", ":"}

URLProtocol(input) ==
    LET s == stripTabsAndNewlines(trim(input))
        e == SchemeEnd(s)
        scheme == SubSeq(s, 1, e - 1)
        host == hostOf(skipSlashes(SubSeq(s, e + 1, Len(s))))
    IN  IF e = 0 THEN ""
        ELSE IF scheme \in {<<"h", "t", "t", "p">>, <<"h", "t", "t", "p", "s">>}
             THEN IF host = <<>> \/ Contains(host, ForbiddenHostChars)
                  THEN ""
                  ELSE IF Len(scheme) = 4 THEN "http:" ELSE "https:"
             ELSE "other:"

(***************************************************************************)
(* SpreadsheetDataValidator: input validation.                             *)
(***************************************************************************)
\* /^[a-zA-Z]:\\/
IsDriveLetterPath(s) ==
    Len(s) >= 3 /\ s[1] \in Letters /\ s[2] = ":" /\ s[3] = BSLASH

isUrl(input) ==
    IF IsDriveLetterPath(input) THEN FALSE
    ELSE URLProtocol(input) \in {"http:", "https:"}

isValidUrl(url) == URLProtocol(url) \in {"http:", "https:"}

InvalidPathChars == {"<", ">", QUOTE, "|", "?", "*"}

hasInvalidPathCharacters(path) ==
    IF IsDriveLetterPath(path) THEN FALSE
    ELSE IF \/ startsWith(path, <<".", "/">>)
            \/ startsWith(path, <<".", ".", "/">>)
            \/ startsWith(path, <<"/">>)
         THEN FALSE
         ELSE Contains(path, InvalidPathChars)

validateStringInput(input) ==
    IF Len(trim(input)) = 0
    THEN <<"File path or URL cannot be empty">>
    ELSE IF isUrl(input)
         THEN IF ~isValidUrl(input) THEN <<"Invalid URL format">> ELSE <<>>
         ELSE IF hasInvalidPathCharacters(input)
              THEN <<"File path contains invalid characters">>
              ELSE <<>>

BufferKinds == {"Buffer", "ArrayBuffer", "Uint8Array"}

getBufferLength(input) == input.length

validateBufferInput(input) ==
    IF getBufferLength(input) = 0 THEN <<"Input buffer is empty">> ELSE <<>>

\* JavaScript truthiness of the input value (the `!input` test)
Truthy(input) ==
    CASE input.kind \in {"null", "undefined"} -> FALSE
      [] input.kind = "string" -> input.text # <<>>
      [] input.kind = "number" -> input.value # 0
      [] OTHER -> TRUE

validateInput(input) ==
    IF ~Truthy(input)
    THEN [isValid |-> FALSE, errors |-> <<"Input cannot be null or undefined">>]
    ELSE LET errors ==
                 CASE input.kind = "string" -> validateStringInput(input.text)
                   [] input.kind \in BufferKinds -> validateBufferInput(input)
                   [] OTHER -> <<"Unsupported input type">>
         IN  [isValid |-> Len(errors) = 0, errors |-> errors]

(***************************************************************************)
(* Exact rational arithmetic for the scores, which the source computes in  *)
(* floating point: a number is [num, den] with den > 0.                    *)
(***************************************************************************)
RatGT(a, b) == a.num * b.den > b.num * a.den

RECURSIVE SumOf(_)
SumOf(xs) == IF xs = <<>> THEN 0 ELSE Head(xs) + SumOf(Tail(xs))

SumSq(xs) == SumOf([i \in 1..Len(xs) |-> xs[i] * xs[i]])

CommonDelimiters == <<",", ";", TAB, "|">>

SAMPLE_LINES == 10

(***************************************************************************)
(* FileTypeDetector.                                                       *)
(***************************************************************************)
\* URL_PATTERNS.FILE_EXTENSION_REGEX  /\.(xlsx?|csv)$/i
MatchesFileExtension(s) ==
    \/ endsWith(s, <<".", "x", "l", "s", "x">>)
    \/ endsWith(s, <<".", "x", "l", "s">>)
    \/ endsWith(s, <<".", "c", "s", "v">>)

\* URL_PATTERNS.PATH_REGEX  /^([a-zA-Z]:\\|\/|\.{1,2}[\/\\])/
MatchesPathPattern(s) ==
    \/ IsDriveLetterPath(s)
    \/ startsWith(s, <<"/">>)
    \/ startsWith(s, <<".", "/">>) \/ startsWith(s, <<".", BSLASH>>)
    \/ startsWith(s, <<".", ".", "/">>) \/ startsWith(s, <<".", ".", BSLASH>>)

\* /^https?:\/\//i
MatchesHttpPrefix(s) ==
    \/ startsWith(s, <<"h", "t", "t", "p", ":", "/", "/">>)
    \/ startsWith(s, <<"h", "t", "t", "p", "s", ":", "/", "/">>)

isFilePath(s) ==
    MatchesFileExtension(s) \/ MatchesPathPattern(s) \/ MatchesHttpPrefix(s)

\* the scanner state after the characters of line: <<count, inQuotes>>
RECURSIVE scanFields(_, _, _, _, _)
scanFields(line, delimiter, quoteCharacter, count, inQuotes) ==
    IF line = <<>> THEN count
    ELSE IF Head(line) = quoteCharacter
         THEN scanFields(Tail(line), delimiter, quoteCharacter, count, ~inQuotes)
         ELSE IF Head(line) = delimiter /\ ~inQuotes
              THEN scanFields(Tail(line), delimiter, quoteCharacter, count + 1, inQuotes)
              ELSE scanFields(Tail(line), delimiter, quoteCharacter, count, inQuotes)

FTD_countFieldsInLine(line, delimiter) ==
    scanFields(line, delimiter, QUOTE, 1, FALSE)

\* the detector's measure variance/mean in place of the coefficient of
\* variation: 1 - variance/mean > 0.8 when 5 * (n*Q - S^2) < n*S and mean > 1
calculateDelimiterConsistency_varianceOverMean(lines, delimiter) ==
    LET nonBlank == filterNonBlank(lines)
        fieldCounts == [i \in 1..Len(nonBlank) |->
                            FTD_countFieldsInLine(nonBlank[i], delimiter)]
        n == Len(fieldCounts)
        S == SumOf(fieldCounts)
        Q == SumSq(fieldCounts)
    IN  IF n < 2 \/ S <= n THEN [num |-> 1, den |-> 1]
        ELSE [num |-> 5 * (n * Q - S * S), den |-> 25 * n * S]

\* The consistency is 1 - sqrt(variance)/mean, floored at 0.  The model keeps
\* it exact by returning the squared coefficient of variation variance/mean^2
\* as a rational: with n counts of sum S and sum of squares Q it is
\* (n*Q - S^2) / S^2.  Fewer than two counts give consistency 0, i.e. 1/1.
calculateDelimiterConsistency(lines, delimiter) ==
    LET nonBlank == filterNonBlank(lines)
        fieldCounts == [i \in 1..Len(nonBlank) |->
                            FTD_countFieldsInLine(nonBlank[i], delimiter)]
        n == Len(fieldCounts)
        S == SumOf(fieldCounts)
        Q == SumSq(fieldCounts)
    IN  IF n < 2 THEN [num |-> 1, den |-> 1]
        ELSE [num |-> n * Q - S * S, den |-> S * S]

\* consistency > 0.8, i.e. sqrt(cv2) < 0.2, i.e. 25 * cv2 < 1
ConsistencyAboveThreshold(cv2) == 25 * cv2.num < cv2.den

hasMultipleColumns(lines, delimiter) ==
    \E i \in 1..Len(lines) : FTD_countFieldsInLine(lines[i], delimiter) > 1

analyzeCsvContentPattern(content) ==
    LET lines == slice(split(content, NL), 0, SAMPLE_LINES)
    IN  IF Len(lines) < 2 THEN FALSE
        ELSE \E k \in 1..Len(CommonDelimiters) :
                /\ ConsistencyAboveThreshold(
                       calculateDelimiterConsistency(lines, CommonDelimiters[k]))
                /\ hasMultipleColumns(lines, CommonDelimiters[k])

isCsvContent(input) ==
    IF isFilePath(input) THEN FALSE ELSE analyzeCsvContentPattern(input)

(***************************************************************************)
(* CsvParser.                                                              *)
(***************************************************************************)
countFieldsInLine(line, delimiter) ==
    scanFields(line, delimiter, QUOTE, 1, FALSE)

\* score = 0.7 * consistency + 0.3 * fieldCountScore, as an exact rational:
\* mean = S/n, variance/mean = (n*Q - S^2)/(n*S),
\* consistency = max(0, n*S - n*Q + S^2)/(n*S) when mean > 1, else 0,
\* fieldCountScore = min(5*n, S)/(5*n).
calculateDelimiterScore(lines, delimiter) ==
    LET fieldCounts == [i \in 1..Len(lines) |->
                            countFieldsInLine(lines[i], delimiter)]
        n == Len(fieldCounts)
        S == SumOf(fieldCounts)
        Q == SumSq(fieldCounts)
        c == n * S - n * Q + S * S
        C == IF S > n /\ c > 0 THEN c ELSE 0
        R == IF S < 5 * n THEN S ELSE 5 * n
    IN  IF n < 2 THEN [num |-> 0, den |-> 1]
        ELSE [num |-> 35 * C + 3 * R * S, den |-> 50 * n * S]

\* the loop over the candidates: best is <<bestDelimiter, bestScore>>
RECURSIVE bestDelimiterLoop(_, _, _)
bestDelimiterLoop(sampleLines, k, best) ==
    IF k > Len(CommonDelimiters) THEN best[1]
    ELSE LET score == calculateDelimiterScore(sampleLines, CommonDelimiters[k])
         IN  IF RatGT(score, best[2])
             THEN bestDelimiterLoop(sampleLines, k + 1, <<CommonDelimiters[k], score>>)
             ELSE bestDelimiterLoop(sampleLines, k + 1, best)

\* a sample of the first 10 non-blank lines of the whole content
detectOptimalDelimiter_skippingBlanks(content) ==
    LET sampleLines == slice(filterNonBlank(split(content, NL)), 0, SAMPLE_LINES)
    IN  IF Len(sampleLines) < 2 THEN ","
        ELSE bestDelimiterLoop(sampleLines, 1, <<",", [num |-> 0, den |-> 1]>>)

detectOptimalDelimiter(content) ==
    LET sampleLines == filterNonBlank(slice(split(content, NL), 0, SAMPLE_LINES))
    IN  IF Len(sampleLines) < 2 THEN ","
        ELSE bestDelimiterLoop(sampleLines, 1, <<",", [num |-> 0, den |-> 1]>>)

(***************************************************************************)
(* Cell values of a row record: null, boolean, number or string.           *)
(***************************************************************************)
NullValue == [t |-> "null", v |-> <<>>]
BoolValue(b) == [t |-> "boolean", v |-> IF b THEN <<"1">> ELSE <<>>]
NumberValue(n) == [t |-> "number", v |-> <<n>>]
StringValue(s) == [t |-> "string", v |-> s]

\* parseLineFields: st is <<fields, currentField, inQuotes>> before line[i]
RECURSIVE parseLineFrom(_, _, _, _, _, _, _, _)
parseLineFrom(line, i, delimiter, quoteChar, escapeChar, fields, currentField, inQuotes) ==
    IF i > Len(line) THEN Append(fields, trim(currentField))
    ELSE LET char == line[i]
             nextChar == IF i + 1 <= Len(line) THEN line[i + 1] ELSE ""
         IN  IF char = escapeChar /\ nextChar = quoteChar /\ inQuotes
             THEN parseLineFrom(line, i + 2, delimiter, quoteChar, escapeChar,
                                fields, Append(currentField, quoteChar), inQuotes)
             ELSE IF char = quoteChar
             THEN parseLineFrom(line, i + 1, delimiter, quoteChar, escapeChar,
                                fields, currentField, ~inQuotes)
             ELSE IF char = delimiter /\ ~inQuotes
             THEN parseLineFrom(line, i + 1, delimiter, quoteChar, escapeChar,
                                Append(fields, trim(currentField)), <<>>, inQuotes)
             ELSE parseLineFrom(line, i + 1, delimiter, quoteChar, escapeChar,
                                fields, Append(currentField, char), inQuotes)

\* shouldTrimFields is true in every configuration the converter builds
parseLineFields(line, delimiter, quoteChar, escapeChar) ==
    parseLineFrom(line, 1, delimiter, quoteChar, escapeChar, <<>>, <<>>, FALSE)

CSV_TRUE_VALUES == {<<"t", "r", "u", "e">>, <<"y", "e", "s">>, <<"y">>}
CSV_FALSE_VALUES == {<<"f", "a", "l", "s", "e">>, <<"n", "o">>, <<"n">>}

\* Number(text) for a text of decimal digits
RECURSIVE DecimalValue(_)
DecimalValue(s) ==
    IF s = <<>> THEN 0
    ELSE 10 * DecimalValue(SubSeq(s, 1, Len(s) - 1))
         + (IF s[Len(s)] = "1" THEN 1 ELSE 0)

\* Number(text) is not NaN: over the characters of the inputs (letters, the
\* digit, delimiters, quotes) exactly the texts made of digits only
IsNumericText(s) == s # <<>> /\ \A i \in 1..Len(s) : s[i] \in Digits

\* The date shapes of looksLikeDate need "/" or "-" between digits, which no
\* field of the inputs contains, so the date branch is never taken.
inferAndConvertType(value) ==
    LET trimmedValue == trim(value)
    IN  IF trimmedValue = <<>> THEN NullValue
        ELSE IF trimmedValue \in CSV_TRUE_VALUES \cup CSV_FALSE_VALUES
             THEN BoolValue(trimmedValue \in CSV_TRUE_VALUES)
        ELSE IF IsNumericText(trimmedValue)
             THEN NumberValue(DecimalValue(trimmedValue))
        ELSE StringValue(trimmedValue)

\* a row record: the object built by row[headers[j]] = value for j = 0, 1, ...
\* (a repeated header keeps the value assigned last)
RowObject(headers, fields) ==
    [h \in {headers[j] : j \in 1..Len(headers)} |->
        LET last == CHOOSE j \in 1..Len(headers) :
                        /\ headers[j] = h
                        /\ \A k \in (j + 1)..Len(headers) : headers[k] # h
        IN  inferAndConvertType(IF last <= Len(fields) THEN fields[last] ELSE <<>>)]

\* commentCharacter is '' in every configuration modelled here
parseCsvInternal(content, fieldDelimiter) ==
    LET lines == filterNonBlank(split(content, NL))
    IN  IF lines = <<>> THEN <<>>
        ELSE LET headers == parseLineFields(lines[1], fieldDelimiter, QUOTE, QUOTE)
             IN  [i \in 1..(Len(lines) - 1) |->
                    RowObject(headers,
                              parseLineFields(lines[i + 1], fieldDelimiter, QUOTE, QUOTE))]

\* CsvParser.parse on a parser whose configured fieldDelimiter is
\* fieldDelimiter ("" when none was given): <<rows, fieldDelimiter afterwards>>.
\* The caller handles the empty content, for which parse throws.
CsvParser_parse(content, fieldDelimiter) ==
    LET delimiter == IF fieldDelimiter = ""
                     THEN detectOptimalDelimiter(content)
                     ELSE fieldDelimiter
    IN  <<parseCsvInternal(content, delimiter), delimiter>>

(***************************************************************************)
(* DataCleaner.                                                            *)
(***************************************************************************)
\* CommonPatterns.isNonEmptyValue: a meaningful value is neither null nor
\* undefined nor a blank string
isNonEmptyValue(value) ==
    /\ value.t # "null"
    /\ value.t = "string" => trim(value.v) # <<>>

\* CommonPatterns.getNonEmptyEntries: the keys of the meaningful fields
getNonEmptyEntries(row) == {k \in DOMAIN row : isNonEmptyValue(row[k])}

CommonIndexNames ==
    {<<"i", "n", "d", "e", "x">>, <<"r", "o", "w">>, <<"r", "o", "w", "n", "u", "m">>,
     <<"r", "o", "w", "n", "u", "m", "b", "e", "r">>, <<"#">>}

UpperCaseLetters ==
    {"A", "B", "C", "D", "E", "F", "G", "H", "I", "J", "K", "L", "M",
     "N", "O", "P", "Q", "R", "S", "T", "U", "V", "W", "X", "Y", "Z"}

DecimalDigits == {"0", "1", "2", "3", "4", "5", "6", "7", "8", "9"}

\* String.prototype.toLowerCase on the characters of the inputs
LowerCaseOf ==
    [c \in UpperCaseLetters |->
        CASE c = "A" -> "a" [] c = "B" -> "b" [] c = "C" -> "c" [] c = "D" -> "d"
          [] c = "E" -> "e" [] c = "F" -> "f" [] c = "G" -> "g" [] c = "H" -> "h"
          [] c = "I" -> "i" [] c = "J" -> "j" [] c = "K" -> "k" [] c = "L" -> "l"
          [] c = "M" -> "m" [] c = "N" -> "n" [] c = "O" -> "o" [] c = "P" -> "p"
          [] c = "Q" -> "q" [] c = "R" -> "r" [] c = "S" -> "s" [] c = "T" -> "t"
          [] c = "U" -> "u" [] c = "V" -> "v" [] c = "W" -> "w" [] c = "X" -> "x"
          [] c = "Y" -> "y" [] OTHER -> "z"]

toLowerCase(s) ==
    [i \in 1..Len(s) |-> IF s[i] \in UpperCaseLetters THEN LowerCaseOf[s[i]] ELSE s[i]]

\* a number that is not an integer: numerator over denominator, in lowest terms
FractionValue(num, den) == [t |-> "number", v |-> <<num, den>>]

\* Number.isInteger on a value of type number
isInteger(value) == Len(value.v) = 1

\* an index column whatever its number
isLikelyIndexColumn_anyNumber(key, value) ==
    LET isNumericKey == key # <<>> /\ \A i \in 1..Len(key) : key[i] \in DecimalDigits
        isSingleLetterKey == Len(key) = 1 /\ key[1] \in UpperCaseLetters
        isCommonIndexName == toLowerCase(key) \in CommonIndexNames
    IN  (isNumericKey \/ isSingleLetterKey \/ isCommonIndexName) /\ value.t = "number"

isLikelyIndexColumn(key, value) ==
    LET isNumericKey == key # <<>> /\ \A i \in 1..Len(key) : key[i] \in DecimalDigits
        isSingleLetterKey == Len(key) = 1 /\ key[1] \in UpperCaseLetters
        isNumericValue == value.t = "number" /\ isInteger(value) /\ value.v[1] > 0
        isCommonIndexName == toLowerCase(key) \in CommonIndexNames
    IN  (isNumericKey \/ isSingleLetterKey \/ isCommonIndexName) /\ isNumericValue

hasNonEmptyValue(row, ignoreIndexOnlyRows) ==
    LET nonEmptyEntries == getNonEmptyEntries(row)
    IN  IF nonEmptyEntries = {} THEN FALSE
        ELSE IF ignoreIndexOnlyRows /\ Cardinality(nonEmptyEntries) = 1
             THEN LET key == CHOOSE k \in nonEmptyEntries : TRUE
                  IN  ~isLikelyIndexColumn(key, row[key])
             ELSE TRUE

RECURSIVE filterRows(_, _)
filterRows(rows, ignoreIndexOnlyRows) ==
    IF rows = <<>> THEN <<>>
    ELSE IF hasNonEmptyValue(Head(rows), ignoreIndexOnlyRows)
         THEN <<Head(rows)>> \o filterRows(Tail(rows), ignoreIndexOnlyRows)
         ELSE filterRows(Tail(rows), ignoreIndexOnlyRows)

identifyEmptyColumns(data) ==
    LET allKeys == UNION {DOMAIN data[i] : i \in 1..Len(data)}
    IN  {key \in allKeys :
            ~\E i \in 1..Len(data) :
                key \in DOMAIN data[i] /\ isNonEmptyValue(data[i][key])}

\* the empty columns taken from the rows given, not from the rows kept
cleanDataset_columnsOfInput(data, skipEmptyRows, skipEmptyColumns, ignoreIndexOnlyRows) ==
    IF Len(data) = 0 THEN data
    ELSE LET kept == IF skipEmptyRows
                     THEN filterRows(data, ignoreIndexOnlyRows)
                     ELSE data
             emptyColumns == IF skipEmptyColumns /\ Len(kept) > 0
                             THEN identifyEmptyColumns(data)
                             ELSE {}
         IN  IF emptyColumns = {} THEN kept
             ELSE [i \in 1..Len(kept) |->
                     [k \in (DOMAIN kept[i]) \ emptyColumns |-> kept[i][k]]]

cleanDataset(data, skipEmptyRows, skipEmptyColumns, ignoreIndexOnlyRows) ==
    IF Len(data) = 0 THEN data
    ELSE LET kept == IF skipEmptyRows
                     THEN filterRows(data, ignoreIndexOnlyRows)
                     ELSE data
             emptyColumns == IF skipEmptyColumns /\ Len(kept) > 0
                             THEN identifyEmptyColumns(kept)
                             ELSE {}
         IN  IF emptyColumns = {} THEN kept
             ELSE [i \in 1..Len(kept) |->
                     [k \in (DOMAIN kept[i]) \ emptyColumns |-> kept[i][k]]]

(***************************************************************************)
(* The inputs of convertToJson.                                            *)
(*                                                                         *)
(* A string input carries its text.  A binary input carries its byte       *)
(* length and what the spreadsheet decoder (XLSX.read) makes of it: the    *)
(* number of sheets of the decoded workbook, or -1 when the decoder        *)
(* throws.  The sheets of a workbook are named Sheet1, Sheet2, ... in      *)
(* workbook order.                                                         *)
(***************************************************************************)
SheetNames ==
    <<"Sheet1", "Sheet2", "Sheet3", "Sheet4", "Sheet5", "Sheet6", "Sheet7", "Sheet8">>

WorkbookSheetNames(n) == SubSeq(SheetNames, 1, n)

StringInput(text) == [kind |-> "string", text |-> text, length |-> 0, sheets |-> 0, value |-> 0]
BinaryInput(kind, length, sheets) ==
    [kind |-> kind, text |-> <<>>, length |-> length, sheets |-> sheets, value |-> 0]
OtherInput(kind, value) == [kind |-> kind, text |-> <<>>, length |-> 0, sheets |-> 0, value |-> value]

\* the lines CSV texts are made of
TextLines ==
    { <<>>,
      <<TAB>>,
      <<"a">>,
      <<"a", ",", "b">>,
      <<"1", ",", "y">>,
      <<"a", ",", "b", ",", "1">>,
      <<"a", ";", "b">>,
      <<"a", TAB, "b">>,
      <<"a", "|", "b">>,
      <<QUOTE, "a", ",", "b", QUOTE, ";", "1">>,
      <<"a", ",", "b", ";", "1">> }

LineSeqs(n) == UNION {[1..k -> TextLines] : k \in 0..n}

BlankLines(n) == [i \in 1..n |-> <<>>]

\* texts whose data lines come after a run of blank lines
LateTexts ==
    {joinLines(BlankLines(n) \o body) :
        n \in 1..MaxLeadingBlankLines,
        body \in {<<<<"a", ";", "b">>, <<"a", ";", "b">>>>,
                  <<<<"a", ",", "b">>, <<"1", ",", "y">>>>}}

\* paths, URLs and other single-line shapes
ShapedTexts ==
    { <<" ">>,
      <<"a", ".", "c", "s", "v">>,
      <<"a", ".", "x", "l", "s", "x">>,
      <<".", "/", "a">>,
      <<".", ".", "/", "a">>,
      <<"/", "a">>,
      <<".", "/", "a", "|", "b">>,
      <<"a", ":", BSLASH, "a", "?">>,
      <<"h", "t", "t", "p", ":", "/", "/", "a">>,
      <<"h", "t", "t", "p", "s", ":", "/", "/", "a">>,
      <<"h", "t", "t", "p", "s", ":", "/", "/", "a", "?", "b">>,
      <<"h", "t", "t", "p", ":", "/", "/">>,
      <<"h", "t", "t", "p", ":", "/", "/", " ", "a">>,
      <<"h", "t", "t", "p", ":", "/", "/", "<", "a", ">">>,
      <<"a", "?", "b">>,
      <<"a", "<", "b">>,
      <<"a", "*">>,
      <<"a", ",", "b", NL, "a", ".", "c", "s", "v">>,
      <<"/", "a", ",", "b", NL, "a", ",", "b">> }

Texts == {joinLines(ls) : ls \in LineSeqs(MaxLines)} \cup LateTexts \cup ShapedTexts

StringInputs == {StringInput(t) : t \in Texts}

BinaryInputs ==
    {BinaryInput(k, 0, 0) : k \in BufferKinds}
    \cup {BinaryInput(k, 1, n) : k \in BufferKinds, n \in -1..0}
    \cup {BinaryInput("ArrayBuffer", 1, n) : n \in 1..MaxSheets}

OtherInputs ==
    {OtherInput("null", 0), OtherInput("undefined", 0), OtherInput("number", 0),
     OtherInput("number", 7), OtherInput("object", 0)}

(***************************************************************************)
(* The configuration given to the constructor.  An option the caller left  *)
(* out is <<>>, a given one is <<value>>.                                  *)
(***************************************************************************)
Selection(mode, list) == [mode |-> mode, list |-> list]

SelectableNames == {"Sheet1", "Sheet2", "Missing"}
SelectableIndices == {-1, 0, 1, MaxSheets}

ArraySelections ==
    {Selection("names", l) : l \in UNION {[1..k -> SelectableNames] : k \in 1..MaxSelectionLength}}
    \cup {Selection("indices", l) : l \in UNION {[1..k -> SelectableIndices] : k \in 0..MaxSelectionLength}}

UserConfig(sel, limit, delim) ==
    [sheetSelection |-> sel, concurrencyLimit |-> limit, fieldDelimiter |-> delim]

NoConfig == UserConfig(<<>>, <<>>, <<>>)

CsvConfigs == {NoConfig, UserConfig(<<>>, <<>>, <<";">>)}

SheetConfigs ==
    {UserConfig(sel, limit, <<>>) :
        sel \in {<<>>, <<Selection("all", <<>>)>>, <<Selection("first", <<>>)>>}
                \cup {<<a>> : a \in ArraySelections},
        limit \in {<<>>} \cup {<<n>> : n \in 1..MaxConcurrencyLimit}}

Scenarios ==
    (CsvConfigs \X StringInputs)
    \cup (SheetConfigs \X BinaryInputs)
    \cup ({NoConfig} \X OtherInputs)

DEFAULT_CONCURRENCY_LIMIT == 4

\* SpreadsheetConverter.normalizeConfiguration: defaults for what was left out
normalizeConfiguration(config) ==
    [sheetSelection |-> IF config.sheetSelection = <<>>
                        THEN Selection("first", <<>>)
                        ELSE config.sheetSelection[1],
     concurrencyLimit |-> IF config.concurrencyLimit = <<>>
                          THEN DEFAULT_CONCURRENCY_LIMIT
                          ELSE config.concurrencyLimit[1],
     fieldDelimiter |-> IF config.fieldDelimiter = <<>>
                        THEN ","
                        ELSE config.fieldDelimiter[1],
     shouldSkipEmptyRows |-> TRUE,
     shouldSkipEmptyColumns |-> TRUE,
     shouldIgnoreIndexOnlyRows |-> TRUE]

(***************************************************************************)
(* NetworkHandler and InputProcessor.                                      *)
(***************************************************************************)
NetworkHandler_isValidUrl(text) == URLProtocol(text) \in {"http:", "https:"}

InputProcessor_isFilePath(text) ==
    MatchesFileExtension(text) \/ MatchesPathPattern(text)

TextSource(text) == [kind |-> "text", text |-> text, sheets |-> 0]
BinarySource(sheets) == [kind |-> "binary", text |-> <<>>, sheets |-> sheets]
NoSource == [kind |-> "none", text |-> <<>>, sheets |-> 0]

\* what a fetch or a file read can deliver: a file the decoder rejects, or a
\* workbook of one or two sheets
FetchedSheetCounts == {-1, 1, 2}

(***************************************************************************)
(* Sheet selection.                                                        *)
(***************************************************************************)
includes(xs, x) == \E i \in 1..Len(xs) : xs[i] = x

RECURSIVE filterNames(_, _)
filterNames(selection, availableSheets) ==
    IF selection = <<>> THEN <<>>
    ELSE IF includes(availableSheets, Head(selection))
         THEN <<Head(selection)>> \o filterNames(Tail(selection), availableSheets)
         ELSE filterNames(Tail(selection), availableSheets)

RECURSIVE mapIndices(_, _)
mapIndices(selection, availableSheets) ==
    IF selection = <<>> THEN <<>>
    ELSE IF Head(selection) >= 0 /\ Head(selection) < Len(availableSheets)
         THEN <<availableSheets[Head(selection) + 1]>>
              \o mapIndices(Tail(selection), availableSheets)
         ELSE mapIndices(Tail(selection), availableSheets)

\* a selection by names that follows the workbook's order
processArraySelection_workbookOrder(selection, availableSheets) ==
    IF selection.mode = "names" /\ selection.list # <<>>
    THEN SelectSeq(availableSheets, LAMBDA name : includes(selection.list, name))
    ELSE mapIndices(selection.list, availableSheets)

\* isString(selection[0]) is the mode "names" of a non-empty list
processArraySelection(selection, availableSheets) ==
    IF selection.mode = "names" /\ selection.list # <<>>
    THEN filterNames(selection.list, availableSheets)
    ELSE mapIndices(selection.list, availableSheets)

selectTargetSheets(selection, availableSheets) ==
    CASE selection.mode = "all" -> availableSheets
      [] selection.mode = "first" -> slice(availableSheets, 0, 1)
      [] selection.mode \in {"names", "indices"} ->
            processArraySelection(selection, availableSheets)
      [] OTHER -> slice(availableSheets, 0, 1)

(***************************************************************************)
(* Per-sheet processing.  The grid extraction of a sheet is represented by *)
(* the rows it yields: sheet number k of the workbook holds (k - 1) % 3    *)
(* rows.                                                                   *)
(***************************************************************************)
SheetNumber(name) == CHOOSE k \in 1..Len(SheetNames) : SheetNames[k] = name

parseWorksheet(sheetName) ==
    [r \in 1..((SheetNumber(sheetName) - 1) % 3) |-> [sheet |-> sheetName, row |-> r]]

\* processWorksheetOptimized: the result of one fulfilled sheet task
processWorksheetOptimized(sheetName, sheetIndex) ==
    LET processedData == parseWorksheet(sheetName)
    IN  [data |-> processedData,
         metadata |-> [name |-> sheetName, index |-> sheetIndex,
                       rowCount |-> Len(processedData)]]

\* processDataThroughPipeline with the default validation, transformer and
\* nesting options: the rows are cleaned and otherwise passed on unchanged
processDataThroughPipeline(data, config) ==
    cleanDataset(data, config.shouldSkipEmptyRows, config.shouldSkipEmptyColumns,
                 config.shouldIgnoreIndexOnlyRows)

(***************************************************************************)
(* Results.                                                                *)
(***************************************************************************)
ArrayData(rows) == [shape |-> "array", rows |-> rows, sheets |-> <<>>]
ObjectData(bySheet) == [shape |-> "object", rows |-> <<>>, sheets |-> bySheet]

NoResult == [present |-> FALSE, data |-> ArrayData(<<>>), metadata |-> <<>>, finalized |-> FALSE]

ConversionResult(data, metadata) ==
    [present |-> TRUE, data |-> data, metadata |-> <<metadata>>, finalized |-> FALSE]

CSV_SOURCE_NAME == "CSV"

\* a result whose shape follows the selection mode alone
createConversionResult_byMode(selection, processedSheets, metadata) ==
    IF selection.mode = "first"
    THEN ConversionResult(ArrayData(processedSheets[1].data), metadata)
    ELSE ConversionResult(
             ObjectData([n \in {processedSheets[i].metadata.name :
                                    i \in 1..Len(processedSheets)} |->
                           LET last == CHOOSE i \in 1..Len(processedSheets) :
                                   /\ processedSheets[i].metadata.name = n
                                   /\ \A j \in (i + 1)..Len(processedSheets) :
                                          processedSheets[j].metadata.name # n
                           IN  processedSheets[last].data]),
             metadata)

createConversionResult(selection, processedSheets, metadata) ==
    LET isSingleSheet == selection.mode = "first" \/ Len(processedSheets) = 1
    IN  IF isSingleSheet
        THEN ConversionResult(ArrayData(processedSheets[1].data), metadata)
        ELSE ConversionResult(
                 ObjectData([n \in {processedSheets[i].metadata.name :
                                        i \in 1..Len(processedSheets)} |->
                               LET last == CHOOSE i \in 1..Len(processedSheets) :
                                       /\ processedSheets[i].metadata.name = n
                                       /\ \A j \in (i + 1)..Len(processedSheets) :
                                              processedSheets[j].metadata.name # n
                               IN  processedSheets[last].data]),
                 metadata)

WorkbookMetadata(processedSheets) ==
    [sheetsProcessed |-> [i \in 1..Len(processedSheets) |-> processedSheets[i].metadata],
     totalRows |-> SumOf([i \in 1..Len(processedSheets) |-> Len(processedSheets[i].data)]),
     totalSheets |-> Len(processedSheets),
     streamingUsed |-> FALSE]

CsvMetadata(processedData) ==
    [sheetsProcessed |-> <<[name |-> CSV_SOURCE_NAME, index |-> 0,
                            rowCount |-> Len(processedData)]>>,
     totalRows |-> Len(processedData),
     totalSheets |-> 1,
     streamingUsed |-> FALSE]

finalizeResult(r) == [r EXCEPT !.finalized = TRUE]

(***************************************************************************)
(* Error messages.                                                         *)
(***************************************************************************)
RECURSIVE joinMessages(_)
joinMessages(msgs) ==
    IF msgs = <<>> THEN ""
    ELSE IF Len(msgs) = 1 THEN Head(msgs)
    ELSE Head(msgs) \o ", " \o joinMessages(Tail(msgs))

ValidationFailureMessage(errors) ==
    "Input validation failed: "
    \o (IF joinMessages(errors) = "" THEN "Unknown validation error"
        ELSE joinMessages(errors))

STRING_INPUT_NOT_SUPPORTED ==
    "String input not supported for Excel parsing. Use buffer or file path processing."
NO_SHEETS_FOUND == "No sheets found to process"
UNKNOWN_ERROR == "Unknown error"
\* messages of errors raised outside the repository's code
SourceErrorMessage == "Failed to fetch file"
DecoderErrorMessage == "Unsupported file"
SheetErrorMessage == "Sheet processing failed"

WrappedMessage(cause) == "Spreadsheet conversion failed: " \o cause

(***************************************************************************)
(* The state of one converter instance and of one convertToJson call.      *)
(***************************************************************************)
VARIABLES
    userConfig,      \* the configuration object given to the constructor
    configuration,   \* this.configuration, normalized
    input,           \* the argument of convertToJson
    pc,              \* position of the call
    validation,      \* result of validateInput
    preparedInput,   \* result of prepareInputForProcessing
    route,           \* "csv" or "workbook" once dispatched
    parserDelimiter, \* fieldDelimiter of the CsvParser after parse
    targetSheets,    \* the resolved sheet selection
    batchStart,      \* the loop variable i of processSheetsWithConcurrency
    task,            \* per selected sheet, the state of its promise
    results,         \* the results array of processSheetsWithConcurrency
    built,           \* the result before finalizeResult
    outcome,         \* "pending", "resolved" or "rejected"
    result,          \* the value the returned promise resolved with
    error,           \* the message of the Error it rejected with
    thrownAt,        \* the stage that threw, "" when none did
    detected,        \* result of a direct detectOptimalDelimiter call
    classified,      \* result of a direct isCsvContent call
    worksheet,       \* the worksheet given to ExcelParser.parseWorksheet
    sheetOptions,    \* the header and row options of that call
    extraction,      \* headers, startRow and rows of that call
    dataset,         \* the rows given to DataCleaner.cleanDataset
    cleanArgs,       \* the three flags of that call
    cleaned,         \* the results of the successive cleanDataset calls
    records,         \* nested records, before they are flattened
    flatRows,        \* the rows given to createNestedObjects
    entryOrder,      \* the order in which those rows list their entries
    nestedRows,      \* the rows createNestedObjects returned
    pipelineRows,    \* the rows given to processDataThroughPipeline
    validationConfig,\* configuration.validationConfig of that converter
    validator,       \* the data validator and the position of the row loop
    pipelineOutput,  \* the rows processDataThroughPipeline returned
    pipelineMetadata,\* the validation part of the metadata of the finalized result
    utilityCall,     \* the arguments of a direct call of a utility
    utilityState     \* what that call has computed so far

vars == <<userConfig, configuration, input, pc, validation, preparedInput, route,
          parserDelimiter, targetSheets, batchStart, task, results, built,
          outcome, result, error, thrownAt, detected, classified,
          worksheet, sheetOptions, extraction, dataset, cleanArgs, cleaned,
          records, flatRows, entryOrder, nestedRows,
          pipelineRows, validationConfig, validator, pipelineOutput,
          pipelineMetadata, utilityCall, utilityState>>

callVars == <<userConfig, configuration, input>>
sheetVars == <<targetSheets, batchStart, task, results>>
endVars == <<outcome, result, error, thrownAt>>
parserVars == <<worksheet, sheetOptions, extraction>>
cleanerVars == <<dataset, cleanArgs, cleaned>>
builderVars == <<records, flatRows, entryOrder, nestedRows>>
pipelineVars == <<pipelineRows, validationConfig, validator, pipelineOutput,
                  pipelineMetadata>>
utilityVars == <<utilityCall, utilityState>>
componentVars == <<parserVars, cleanerVars, builderVars, pipelineVars, utilityVars>>
directVars == <<detected, classified, componentVars>>
convVars == <<callVars, validation, preparedInput, route, parserDelimiter,
              sheetVars, built, endVars>>

\* no direct call of a component is under way
ParserIdle ==
    /\ worksheet = <<>>
    /\ sheetOptions = <<>>
    /\ extraction = <<>>

CleanerIdle ==
    /\ dataset = <<>>
    /\ cleanArgs = <<>>
    /\ cleaned = <<>>

BuilderIdle ==
    /\ records = <<>>
    /\ flatRows = <<>>
    /\ entryOrder = ""
    /\ nestedRows = <<>>

PipelineIdle ==
    /\ pipelineRows = <<>>
    /\ validationConfig = <<>>
    /\ validator = <<>>
    /\ pipelineOutput = <<>>
    /\ pipelineMetadata = <<>>

UtilityIdle ==
    /\ utilityCall = <<>>
    /\ utilityState = <<>>

ComponentsIdle ==
    ParserIdle /\ CleanerIdle /\ BuilderIdle /\ PipelineIdle /\ UtilityIdle

\* a converter on which convertToJson has not been called
ConverterIdle ==
    /\ pc = "idle"
    /\ validation = [isValid |-> TRUE, errors |-> <<>>]
    /\ preparedInput = NoSource
    /\ route = "none"
    /\ parserDelimiter = ""
    /\ targetSheets = <<>>
    /\ batchStart = 0
    /\ task = <<>>
    /\ results = <<>>
    /\ built = NoResult
    /\ outcome = "pending"
    /\ result = NoResult
    /\ error = ""
    /\ thrownAt = ""
    /\ detected = ""
    /\ classified = FALSE

Init ==
    /\ \E sc \in Scenarios :
          /\ userConfig = sc[1]
          /\ configuration = normalizeConfiguration(sc[1])
          /\ input = sc[2]
    /\ ConverterIdle
    /\ ComponentsIdle

\* a catch block that swallows the cause and resolves
Rejection_swallow(cause) ==
    [outcome |-> "resolved", error |-> "", result |-> NoResult]

\* the catch block of convertToJson: what the caller gets for a thrown cause
Rejection(cause) ==
    [outcome |-> "rejected", error |-> WrappedMessage(cause), result |-> NoResult]

Fail(cause, stage) ==
    LET r == Rejection(cause)
    IN  /\ pc' = "returned"
        /\ outcome' = r.outcome
        /\ error' = r.error
        /\ result' = r.result
        /\ thrownAt' = stage

\* convertToJson up to its first await: validation
ConvertToJson ==
    /\ pc = "idle"
    /\ validation' = validateInput(input)
    /\ IF ~validation'.isValid
       THEN Fail(ValidationFailureMessage(validation'.errors), "validation")
       ELSE pc' = "preparing" /\ UNCHANGED endVars
    /\ UNCHANGED <<callVars, preparedInput, route, parserDelimiter, sheetVars, built, directVars>>

\* InputProcessor.prepareInputForProcessing: the outcomes of preparing input,
\* <<>> standing for a rejected fetch or file read
PrepareOutcomes(in) ==
    IF in.kind = "string"
    THEN IF NetworkHandler_isValidUrl(in.text) \/ InputProcessor_isFilePath(in.text)
         THEN {<<>>} \cup {<<BinarySource(n)>> : n \in FetchedSheetCounts}
         ELSE {<<TextSource(in.text)>>}
    ELSE IF in.kind \in BufferKinds
         THEN {<<BinarySource(in.sheets)>>}
         ELSE {<<>>}

PrepareInput ==
    /\ pc = "preparing"
    /\ \E o \in PrepareOutcomes(input) :
          IF o = <<>>
          THEN Fail(SourceErrorMessage, "prepare") /\ UNCHANGED preparedInput
          ELSE /\ preparedInput' = o[1]
               /\ pc' = "prepared"
               /\ UNCHANGED endVars
    /\ UNCHANGED <<callVars, validation, route, parserDelimiter, sheetVars, built, directVars>>

IsCsvSource(src) == src.kind = "text" /\ isCsvContent(src.text)

\* processStandard, CSV branch: processCsvContent
ProcessCsvContent ==
    /\ pc = "prepared"
    /\ IsCsvSource(preparedInput)
    /\ LET parsed == CsvParser_parse(preparedInput.text, configuration.fieldDelimiter)
           processedData == processDataThroughPipeline(parsed[1], configuration)
       IN  /\ parserDelimiter' = parsed[2]
           /\ built' = ConversionResult(ArrayData(processedData), CsvMetadata(processedData))
    /\ route' = "csv"
    /\ pc' = "finalizing"
    /\ UNCHANGED <<callVars, validation, preparedInput, sheetVars, endVars, directVars>>

\* processStandard, workbook branch: processExcelWorkbook up to the batches
ProcessExcelWorkbook ==
    /\ pc = "prepared"
    /\ ~IsCsvSource(preparedInput)
    /\ route' = "workbook"
    /\ IF preparedInput.kind = "text"
       THEN Fail(STRING_INPUT_NOT_SUPPORTED, "decode") /\ UNCHANGED sheetVars
       ELSE IF preparedInput.sheets < 0
       THEN Fail(DecoderErrorMessage, "decode") /\ UNCHANGED sheetVars
       ELSE LET availableSheets == WorkbookSheetNames(preparedInput.sheets)
                target == selectTargetSheets(configuration.sheetSelection, availableSheets)
            IN  IF target = <<>>
                THEN Fail(NO_SHEETS_FOUND, "selection") /\ UNCHANGED sheetVars
                ELSE /\ targetSheets' = target
                     /\ task' = [k \in 1..Len(target) |-> "notStarted"]
                     /\ batchStart' = 0
                     /\ results' = <<>>
                     /\ pc' = "batching"
                     /\ UNCHANGED endVars
    /\ UNCHANGED <<callVars, validation, preparedInput, parserDelimiter, built, directVars>>

\* this.configuration.performanceConfig?.concurrencyLimit || 4
ConcurrencyLimit(config) ==
    IF config.concurrencyLimit = 0 THEN DEFAULT_CONCURRENCY_LIMIT
    ELSE config.concurrencyLimit

\* a batch that takes every remaining sheet
BatchOf_unbounded(sheets, i, limit) ==
    {k \in 1..Len(sheets) : k > i}

\* slice(targetSheets, i, i + concurrencyLimit), as positions 1..Len
BatchOf(sheets, i, limit) ==
    {k \in 1..Len(sheets) : k > i /\ k <= i + limit}

CurrentBatch == BatchOf(targetSheets, batchStart, ConcurrencyLimit(configuration))

AllStarted == \A k \in CurrentBatch : task[k] # "notStarted"

RejectedStates == {"rejected", "rejectedNonError"}

\* map(batch, ...) calls processWorksheetOptimized for the sheets of the batch
\* in order; a sheet whose extraction throws yields a rejected promise
StartSheet ==
    /\ pc = "batching"
    /\ ~AllStarted
    /\ LET k == Min({j \in CurrentBatch : task[j] = "notStarted"})
       IN  \E o \in {"pending", "rejected"} : task' = [task EXCEPT ![k] = o]
    /\ UNCHANGED <<callVars, pc, validation, preparedInput, route, parserDelimiter,
                   targetSheets, batchStart, results, built, endVars, directVars>>

\* a started sheet runs to its end, also after another sheet's failure has
\* made the call return
SettleSheet ==
    /\ pc \in {"batching", "returned"}
    /\ AllStarted
    /\ \E k \in CurrentBatch :
          /\ task[k] = "pending"
          /\ \E o \in {"fulfilled"} \cup RejectedStates :
                task' = [task EXCEPT ![k] = o]
    /\ UNCHANGED <<callVars, pc, validation, preparedInput, route, parserDelimiter,
                   targetSheets, batchStart, results, built, endVars, directVars>>

\* a wait that goes on once every promise has settled, rejected or not
BatchFulfils_allSettled(t, batch) ==
    \A k \in batch : t[k] \in {"fulfilled", "rejected", "rejectedNonError"}

\* await Promise.all(batchPromises) fulfils when every promise has
BatchFulfils(t, batch) == \A k \in batch : t[k] = "fulfilled"

RECURSIVE BatchResults(_, _, _)
BatchResults(sheets, from, to) ==
    IF from > to THEN <<>>
    ELSE <<processWorksheetOptimized(sheets[from], from - 1)>>
         \o BatchResults(sheets, from + 1, to)

BatchFulfilled ==
    /\ pc = "batching"
    /\ AllStarted
    /\ BatchFulfils(task, CurrentBatch)
    /\ LET limit == ConcurrencyLimit(configuration)
           last == IF batchStart + limit < Len(targetSheets)
                   THEN batchStart + limit ELSE Len(targetSheets)
           collected == results \o BatchResults(targetSheets, batchStart + 1, last)
       IN  /\ results' = collected
           /\ batchStart' = batchStart + limit
           /\ IF batchStart + limit < Len(targetSheets)
              THEN UNCHANGED <<pc, built>>
              ELSE /\ pc' = "finalizing"
                   /\ built' = createConversionResult(configuration.sheetSelection,
                                   collected, WorkbookMetadata(collected))
    /\ UNCHANGED <<callVars, validation, preparedInput, route, parserDelimiter,
                   targetSheets, task, endVars, directVars>>

\* await Promise.all(batchPromises) rejects with a rejected promise's reason
BatchRejected ==
    /\ pc = "batching"
    /\ AllStarted
    /\ \E k \in CurrentBatch :
          /\ task[k] \in RejectedStates
          /\ Fail(IF task[k] = "rejected" THEN SheetErrorMessage ELSE UNKNOWN_ERROR,
                  "sheet")
    /\ UNCHANGED <<callVars, validation, preparedInput, route, parserDelimiter,
                   sheetVars, built, directVars>>

\* finalizeResult and the return of convertToJson
Finalize ==
    /\ pc = "finalizing"
    /\ result' = finalizeResult(built)
    /\ outcome' = "resolved"
    /\ pc' = "returned"
    /\ UNCHANGED <<callVars, validation, preparedInput, route, parserDelimiter,
                   sheetVars, built, error, thrownAt, directVars>>

\* a direct call of the public CsvParser.detectOptimalDelimiter on a text
DetectOptimalDelimiter ==
    /\ pc = "idle"
    /\ input.kind = "string"
    /\ detected' = detectOptimalDelimiter(input.text)
    /\ pc' = "detected"
    /\ UNCHANGED <<callVars, validation, preparedInput, route, parserDelimiter,
                   sheetVars, built, endVars, classified, componentVars>>

\* a direct call of the public FileTypeDetector.isCsvContent on a text
IsCsvContent ==
    /\ pc = "idle"
    /\ input.kind = "string"
    /\ classified' = isCsvContent(input.text)
    /\ pc' = "classified"
    /\ UNCHANGED <<callVars, validation, preparedInput, route, parserDelimiter,
                   sheetVars, built, endVars, detected, componentVars>>

Next ==
    \/ ConvertToJson
    \/ PrepareInput
    \/ ProcessCsvContent
    \/ ProcessExcelWorkbook
    \/ StartSheet
    \/ SettleSheet
    \/ BatchFulfilled
    \/ BatchRejected
    \/ Finalize
    \/ DetectOptimalDelimiter
    \/ IsCsvContent

Spec == Init /\ [][Next]_vars

(***************************************************************************)
(* ExcelParser: header resolution and row extraction of one worksheet.     *)
(*                                                                         *)
(* A worksheet is its grid of cells, a sequence of rows of equal length    *)
(* whose used range starts at A1: a cell is <<>> when the worksheet holds  *)
(* nothing at the address and <<value>> otherwise.  A header and a         *)
(* row-record key are texts; a row record is a function from keys to       *)
(* values.                                                                 *)
(***************************************************************************)
ColumnLetters == <<"A", "B", "C", "D", "E", "F", "G", "H", "I", "J", "K">>

\* XLSX.utils.encode_col
encode_col(col) == <<ColumnLetters[col + 1]>>

\* range.e.r and range.e.c of the decoded '!ref'
LastRow(ws) == Len(ws) - 1
LastCol(ws) == Len(ws[1]) - 1

\* worksheet[XLSX.utils.encode_cell({r, c})]
CellAt(ws, row, col) ==
    IF row + 1 \in DOMAIN ws /\ col + 1 \in DOMAIN ws[row + 1]
    THEN ws[row + 1][col + 1]
    ELSE <<>>

\* the truthiness of cell.v
CellTruthy(value) ==
    CASE value.t = "string" -> value.v # <<>>
      [] value.t = "number" -> value.v[1] # 0
      [] value.t = "boolean" -> value.v # <<>>
      [] OTHER -> FALSE

\* String(cell.v), for the one-digit numbers of the grids
StringOf(value) ==
    CASE value.t = "string" -> value.v
      [] value.t = "number" -> <<ToString(value.v[1])>>
      [] value.t = "boolean" ->
            IF value.v # <<>> THEN <<"t", "r", "u", "e">> ELSE <<"f", "a", "l", "s", "e">>
      [] OTHER -> <<"n", "u", "l", "l">>

removeBreakLines(s) == SelectSeq(s, LAMBDA c : c \notin {NL, "\r"})

COLUMN_PREFIX == "Column_"
EMPTY_HEADER_PREFIX == "Empty_Header_"

\* uniqueId(): the text of the number of the call
uniqueId(calls) == ToString(calls + 1)

\* HeaderProcessor.transformHeaderWithFallback, given the number of uniqueId
\* calls made so far: <<header, number of uniqueId calls afterwards>>
transformHeaderWithFallback(header, calls) ==
    IF header = <<>>
    THEN <<<<COLUMN_PREFIX, "now", "_", uniqueId(calls)>>, calls + 1>>
    ELSE LET processed == removeBreakLines(trim(header))
         IN  IF processed = <<>>
             THEN <<<<EMPTY_HEADER_PREFIX, uniqueId(calls)>>, calls + 1>>
             ELSE <<processed, calls>>

\* config.headerTransformer ? config.headerTransformer(headerValue)
\*                          : HeaderProcessor.transformHeaderWithFallback(headerValue)
\* "identity" is the (header) => header of the converter's defaults
applyHeaderTransformer(config, headerValue, calls) ==
    IF config.headerTransformer = "identity"
    THEN <<headerValue, calls>>
    ELSE transformHeaderWithFallback(headerValue, calls)

\* the loop of extractHeadersFromRow from column col on: st is
\* <<headers, number of uniqueId calls>>
RECURSIVE extractHeadersFromRowLoop(_, _, _, _, _)
extractHeadersFromRowLoop(ws, rowIndex, config, col, st) ==
    IF col > LastCol(ws) THEN st
    ELSE LET cell == CellAt(ws, rowIndex, col)
         IN  IF cell # <<>> /\ CellTruthy(cell[1])
             THEN LET t == applyHeaderTransformer(config, StringOf(cell[1]), st[2])
                  IN  IF t[1] # <<>>
                      THEN extractHeadersFromRowLoop(ws, rowIndex, config, col + 1,
                               <<(encode_col(col) :> t[1]) @@ st[1], t[2]>>)
                      ELSE extractHeadersFromRowLoop(ws, rowIndex, config, col + 1,
                               <<st[1], t[2]>>)
             ELSE extractHeadersFromRowLoop(ws, rowIndex, config, col + 1, st)

extractHeadersFromRow(ws, rowIndex, config, calls) ==
    extractHeadersFromRowLoop(ws, rowIndex, config, 0, <<<<>>, calls>>)

\* /^[A-Z]{1,2}$/
columnLetterPattern(value) ==
    /\ Len(value) \in {1, 2}
    /\ \A i \in 1..Len(value) : value[i] \in UpperCaseLetters

\* columnLetterCount / headerValues.length > 0.7
mostlyColumnLetters_atLeast(headers) ==
    LET columnLetterCount ==
            Cardinality({c \in DOMAIN headers : columnLetterPattern(headers[c])})
        total == Cardinality(DOMAIN headers)
    IN  total > 0 /\ 10 * columnLetterCount >= 7 * total

mostlyColumnLetters(headers) ==
    LET columnLetterCount ==
            Cardinality({c \in DOMAIN headers : columnLetterPattern(headers[c])})
        total == Cardinality(DOMAIN headers)
    IN  total > 0 /\ 10 * columnLetterCount > 7 * total

extractHeaders(ws, config) ==
    LET first == extractHeadersFromRow(ws, config.headerRowIndex[1], config, 0)
        actualHeaderRow == config.headerRowIndex[1] + 1
    IN  IF mostlyColumnLetters(first[1]) /\ actualHeaderRow <= LastRow(ws)
        THEN [headers |-> extractHeadersFromRow(ws, actualHeaderRow, config, first[2])[1],
              usedNextRowForHeaders |-> TRUE]
        ELSE [headers |-> first[1], usedNextRowForHeaders |-> FALSE]

processWorksheetHeaders(ws, config) ==
    IF config.headerRowIndex = <<>>
    THEN [headers |-> <<>>, startRow |-> 0]
    ELSE LET headerExtractionResult == extractHeaders(ws, config)
             baseStartRow == config.headerRowIndex[1] + 1
         IN  [headers |-> headerExtractionResult.headers,
              startRow |-> IF headerExtractionResult.usedNextRowForHeaders
                           THEN baseStartRow + 1 ELSE baseStartRow]

\* an absent cell read as an empty text
extractCellValue_emptyText(cell) == IF cell = <<>> THEN StringValue(<<>>) ELSE cell[1]

\* the value transformer is the identity and the grids hold no dates
extractCellValue(cell) == IF cell = <<>> THEN NullValue ELSE cell[1]

\* headers[colName] || colName
columnKeyOf(headers, col) ==
    IF encode_col(col) \in DOMAIN headers /\ headers[encode_col(col)] # <<>>
    THEN headers[encode_col(col)]
    ELSE encode_col(col)

\* the loop of processDataRow from column col on
RECURSIVE processDataRowLoop(_, _, _, _, _)
processDataRowLoop(ws, headers, row, col, rowData) ==
    IF col > LastCol(ws) THEN rowData
    ELSE processDataRowLoop(ws, headers, row, col + 1,
             (columnKeyOf(headers, col) :> extractCellValue(CellAt(ws, row, col)))
                 @@ rowData)

processDataRow(ws, headers, row) == processDataRowLoop(ws, headers, row, 0, <<>>)

hasNonEmptyData(rowData) ==
    \E k \in DOMAIN rowData :
        rowData[k] # NullValue /\ rowData[k] # StringValue(<<>>)

SHEET_KEY == <<"_sheet">>

\* the loop of extractDataRows from row on
RECURSIVE extractDataRowsLoop(_, _, _, _, _, _)
extractDataRowsLoop(ws, headers, row, sheetName, config, data) ==
    IF row > LastRow(ws) THEN data
    ELSE LET rowData == processDataRow(ws, headers, row)
             named == IF config.shouldIncludeSheetName
                      THEN (SHEET_KEY :> StringValue(<<sheetName>>)) @@ rowData
                      ELSE rowData
         IN  IF hasNonEmptyData(rowData) \/ ~config.shouldSkipEmptyRows
             THEN extractDataRowsLoop(ws, headers, row + 1, sheetName, config,
                                      Append(data, named))
             ELSE extractDataRowsLoop(ws, headers, row + 1, sheetName, config, data)

extractDataRows(ws, headers, startRow, sheetName, config) ==
    extractDataRowsLoop(ws, headers, startRow, sheetName, config, <<>>)

ExcelParser_parseWorksheet(ws, sheetName, config) ==
    LET h == processWorksheetHeaders(ws, config)
    IN  extractDataRows(ws, h.headers, h.startRow, sheetName, config)

(***************************************************************************)
(* The worksheets and options of a parseWorksheet call.                    *)
(***************************************************************************)
\* the cells a header row is made of: no cell, a name (twice in a row when
\* chosen twice), a bare column letter, a name in whitespace and a line
\* break, a blank text
HeaderCells ==
    { <<>>,
      <<StringValue(<<"n", "a", "m", "e">>)>>,
      <<StringValue(<<"A">>)>>,
      <<StringValue(<<" ", "a", NL>>)>>,
      <<StringValue(<<" ">>)>> }

LowerNames == <<"a", "b", "c", "d", "e", "f", "g", "h", "i", "j", "k">>

\* the rows below: no cell at all, a number in the first column only, a
\* different text in every column
DataRowPatterns(cols) ==
    { [c \in 1..cols |-> <<>>],
      [c \in 1..cols |-> IF c = 1 THEN <<NumberValue(1)>> ELSE <<>>],
      [c \in 1..cols |-> <<StringValue(<<LowerNames[c]>>)>>] }

Grids ==
    {<<hdr>> \o body :
        hdr \in UNION {[1..cols -> HeaderCells] : cols \in 1..MaxColumns},
        body \in UNION {[1..k -> UNION {DataRowPatterns(cols) : cols \in 1..MaxColumns}] :
                            k \in 0..MaxDataRows}}

\* a grid is rectangular
Rectangular(ws) == \A r \in DOMAIN ws : Len(ws[r]) = Len(ws[1])

\* sheets exported with their column letters as the first row: the first k
\* headers are the letters of their columns, the others are names
MisexportedGrids ==
    {<< [c \in 1..cols |-> IF c <= k THEN <<StringValue(<<ColumnLetters[c]>>)>>
                                     ELSE <<StringValue(<<"h", LowerNames[c]>>)>>],
        [c \in 1..cols |-> <<StringValue(<<LowerNames[c]>>)>>],
        [c \in 1..cols |-> <<NumberValue(1)>>] >> :
        cols \in {3, 4, 10}, k \in 0..10}

Worksheets == {ws \in Grids : Rectangular(ws)} \cup MisexportedGrids

\* the options as the caller gives them, <<>> for an option left out, and
\* the way the parser is reached: through a SpreadsheetConverter, which
\* normalizes them, or directly, with the options as given
SheetOptions(via, hasHeaderRow, headerRowIndex, headerTransformer, includeSheetName, skipEmptyRows) ==
    [via |-> via, hasHeaderRow |-> hasHeaderRow, headerRowIndex |-> headerRowIndex,
     headerTransformer |-> headerTransformer,
     shouldIncludeSheetName |-> includeSheetName, shouldSkipEmptyRows |-> skipEmptyRows]

SheetOptionsSet ==
    {SheetOptions("converter", hhr, hri, <<>>, <<>>, <<>>) :
        hhr \in {<<>>, <<FALSE>>}, hri \in {<<>>, <<0>>, <<1>>}}
    \cup {SheetOptions("converter", <<>>, <<>>, <<>>, <<TRUE>>, <<FALSE>>),
          SheetOptions("converter", <<>>, <<>>, <<>>, <<TRUE>>, <<>>)}
    \cup {SheetOptions("parser", <<TRUE>>, hri, <<>>, <<FALSE>>, <<TRUE>>) :
            hri \in {<<>>, <<0>>}}
    \cup {SheetOptions("parser", <<FALSE>>, <<>>, <<>>, <<TRUE>>, <<FALSE>>)}

\* SpreadsheetConverter.normalizeConfiguration for the header and row
\* options: defaults(config, defaultConfig)
normalizeSheetConfiguration(options) ==
    [hasHeaderRow |-> IF options.hasHeaderRow = <<>> THEN TRUE
                      ELSE options.hasHeaderRow[1],
     headerRowIndex |-> IF options.headerRowIndex = <<>> THEN <<0>>
                        ELSE options.headerRowIndex,
     headerTransformer |-> "identity",
     shouldIncludeSheetName |-> IF options.shouldIncludeSheetName = <<>> THEN FALSE
                                ELSE options.shouldIncludeSheetName[1],
     shouldSkipEmptyRows |-> IF options.shouldSkipEmptyRows = <<>> THEN TRUE
                             ELSE options.shouldSkipEmptyRows[1]]

\* the configuration parseWorksheet is called with; on a direct call an
\* option left out is undefined
SheetConfiguration(options) ==
    IF options.via = "converter" THEN normalizeSheetConfiguration(options)
    ELSE [hasHeaderRow |-> options.hasHeaderRow # <<>> /\ options.hasHeaderRow[1],
          headerRowIndex |-> options.headerRowIndex,
          headerTransformer |-> "none",
          shouldIncludeSheetName |-> options.shouldIncludeSheetName # <<>>
                                     /\ options.shouldIncludeSheetName[1],
          shouldSkipEmptyRows |-> options.shouldSkipEmptyRows # <<>>
                                  /\ options.shouldSkipEmptyRows[1]]

PARSED_SHEET_NAME == "Sheet1"

SheetInit ==
    /\ userConfig = NoConfig
    /\ configuration = normalizeConfiguration(NoConfig)
    /\ input = OtherInput("undefined", 0)
    /\ ConverterIdle
    /\ worksheet \in Worksheets
    /\ sheetOptions \in SheetOptionsSet
    /\ extraction = <<>>
    /\ CleanerIdle
    /\ BuilderIdle
    /\ PipelineIdle
    /\ UtilityIdle

\* parseWorksheet up to the headers: processWorksheetHeaders
ProcessWorksheetHeaders ==
    /\ pc = "idle"
    /\ worksheet # <<>>
    /\ LET h == processWorksheetHeaders(worksheet, SheetConfiguration(sheetOptions))
       IN  extraction' = [headers |-> h.headers, startRow |-> h.startRow, rows |-> <<>>]
    /\ pc' = "headers"
    /\ UNCHANGED <<convVars, detected, classified, worksheet, sheetOptions, cleanerVars, builderVars,
                   pipelineVars, utilityVars>>

\* the rest of parseWorksheet: extractDataRows
ExtractDataRows ==
    /\ pc = "headers"
    /\ extraction' = [extraction EXCEPT !.rows =
            extractDataRows(worksheet, extraction.headers, extraction.startRow,
                            PARSED_SHEET_NAME, SheetConfiguration(sheetOptions))]
    /\ pc' = "parsed"
    /\ UNCHANGED <<convVars, detected, classified, worksheet, sheetOptions, cleanerVars, builderVars,
                   pipelineVars, utilityVars>>

SheetNext ==
    \/ ProcessWorksheetHeaders
    \/ ExtractDataRows

SheetSpec == SheetInit /\ [][SheetNext]_vars

(***************************************************************************)
(* DataCleaner.cleanDataset called directly, and called again on its own   *)
(* result.                                                                 *)
(***************************************************************************)
\* the first key of a row: a column letter, a number, an index name with a
\* capital, or a name
FirstKeys == {<<"A">>, <<"1", "2">>, <<"I", "n", "d", "e", "x">>, <<"n", "a", "m", "e">>}
SecondKey == <<"b">>

FirstValues ==
    {NullValue, NumberValue(3), FractionValue(3, 2), NumberValue(-1),
     StringValue(<<"x">>)}
SecondValues == {NullValue, StringValue(<<" ">>), StringValue(<<"y">>)}

\* rows of one or two fields
CleanRows(key) ==
    {key :> v : v \in FirstValues}
        \cup {(key :> v) @@ (SecondKey :> w) : v \in FirstValues, w \in SecondValues}

Datasets ==
    UNION {UNION {[1..n -> CleanRows(key)] : n \in 0..MaxCleanRows} : key \in FirstKeys}

CleanArgs ==
    {[skipEmptyRows |-> a[1], skipEmptyColumns |-> a[2], ignoreIndexOnlyRows |-> a[3]] :
        a \in {<<TRUE, TRUE, TRUE>>, <<TRUE, FALSE, TRUE>>,
               <<TRUE, TRUE, FALSE>>, <<FALSE, TRUE, TRUE>>}}

CleanInit ==
    /\ userConfig = NoConfig
    /\ configuration = normalizeConfiguration(NoConfig)
    /\ input = OtherInput("undefined", 0)
    /\ ConverterIdle
    /\ ParserIdle
    /\ dataset \in Datasets
    /\ cleanArgs \in CleanArgs
    /\ cleaned = <<>>
    /\ BuilderIdle
    /\ PipelineIdle
    /\ UtilityIdle

\* cleanDataset(dataset, ...)
CleanDataset ==
    /\ pc = "idle"
    /\ cleanArgs # <<>>
    /\ cleaned' = <<cleanDataset(dataset, cleanArgs.skipEmptyRows,
                                 cleanArgs.skipEmptyColumns,
                                 cleanArgs.ignoreIndexOnlyRows)>>
    /\ pc' = "cleaned"
    /\ UNCHANGED <<convVars, detected, classified, parserVars, dataset, cleanArgs, builderVars,
                   pipelineVars, utilityVars>>

\* cleanDataset on the rows the first call returned, with the same flags
CleanAgain ==
    /\ pc = "cleaned"
    /\ cleaned' = Append(cleaned, cleanDataset(cleaned[1], cleanArgs.skipEmptyRows,
                                               cleanArgs.skipEmptyColumns,
                                               cleanArgs.ignoreIndexOnlyRows))
    /\ pc' = "recleaned"
    /\ UNCHANGED <<convVars, detected, classified, parserVars, dataset, cleanArgs, builderVars,
                   pipelineVars, utilityVars>>

CleanNext ==
    \/ CleanDataset
    \/ CleanAgain

CleanSpec == CleanInit /\ [][CleanNext]_vars

(***************************************************************************)
(* NestedObjectBuilder.  An object is a function from keys to values, an   *)
(* array a function from the decimal texts of its indices to its elements. *)
(***************************************************************************)
ObjectValue(fields) == [t |-> "object", v |-> fields]
ArrayValue(elements) == [t |-> "array", v |-> elements]

DOT == "."

\* a pattern that no key matches
NUMERIC_INDEX_REGEX_never(key) == FALSE

\* NUMERIC_PATTERNS.NUMERIC_INDEX_REGEX, /^\d+$/
NUMERIC_INDEX_REGEX(key) ==
    key # <<>> /\ \A i \in 1..Len(key) : key[i] \in DecimalDigits

\* the property name of the index parseInt reads from a text of digits: the
\* text without its leading zeros
RECURSIVE parseIntKey(_)
parseIntKey(key) ==
    IF Len(key) > 1 /\ Head(key) = "0" THEN parseIntKey(Tail(key)) ELSE key

\* setNestedValue on the fields of a container: path.slice(0, -1) is walked,
\* a missing or non-container step becomes [] when the next key is numeric
\* and {} otherwise, and the last key receives the value
RECURSIVE setNestedValue_replacing(_, _, _, _)
setNestedValue_replacing(fields, isArray, path, value) ==
    IF Len(path) = 1
    THEN (path[1] :> value) @@ fields
    ELSE LET key == path[1]
             child == IF NUMERIC_INDEX_REGEX(path[2])
                      THEN ArrayValue(<<>>) ELSE ObjectValue(<<>>)
             inner == setNestedValue_replacing(child.v, child.t = "array", Tail(path), value)
         IN  (key :> [child EXCEPT !.v = inner]) @@ fields

RECURSIVE setNestedValue(_, _, _, _)
setNestedValue(fields, isArray, path, value) ==
    IF Len(path) = 1
    THEN LET lastKey == path[1]
         IN  IF NUMERIC_INDEX_REGEX(lastKey) /\ isArray
             THEN (parseIntKey(lastKey) :> value) @@ fields
             ELSE (lastKey :> value) @@ fields
    ELSE LET key == path[1]
             isNextKeyNumeric == NUMERIC_INDEX_REGEX(path[2])
             child == IF \/ key \notin DOMAIN fields
                         \/ fields[key].t \notin {"object", "array"}
                      THEN IF isNextKeyNumeric THEN ArrayValue(<<>>) ELSE ObjectValue(<<>>)
                      ELSE fields[key]
             inner == setNestedValue(child.v, child.t = "array", Tail(path), value)
         IN  (key :> [child EXCEPT !.v = inner]) @@ fields

\* the orders in which a row lists its entries (the columns of its sheet):
\* the keys that end in digits before the others, or after them.  Among the
\* keys of the rows modelled no other difference of order shows in the result.
EntryOrders == {"numericFirst", "numericLast"}

endsNumeric(key) ==
    LET path == split(key, DOT) IN NUMERIC_INDEX_REGEX(path[Len(path)])

\* the entry of todo that comes first in the order
firstEntry(todo, order) ==
    LET preferred == {k \in todo : endsNumeric(k) = (order = "numericFirst")}
    IN  IF preferred # {} THEN CHOOSE k \in preferred : TRUE
        ELSE CHOOSE k \in todo : TRUE

\* processRowForNesting: the entries of the row are folded into a new object
RECURSIVE processEntries(_, _, _, _)
processEntries(row, todo, order, acc) ==
    IF todo = {} THEN acc
    ELSE LET key == firstEntry(todo, order)
             next == IF Contains(key, {DOT})
                     THEN setNestedValue(acc, FALSE, split(key, DOT), row[key])
                     ELSE (key :> row[key]) @@ acc
         IN  processEntries(row, todo \ {key}, order, next)

processRowForNesting(row, order) == processEntries(row, DOMAIN row, order, <<>>)

createNestedObjects(data, order) ==
    IF data = <<>> THEN data
    ELSE LET sampleRow == data[1]
             hasDotNotationKeys == \E key \in DOMAIN sampleRow : Contains(key, {DOT})
         IN  IF ~hasDotNotationKeys THEN data
             ELSE [i \in 1..Len(data) |-> processRowForNesting(data[i], order)]

\* flattening: the path of every leaf (a value that is not an object with
\* fields), its keys joined by dots
RECURSIVE flattenEntries(_)
flattenEntries(fields) ==
    UNION {IF fields[k].t = "object" /\ DOMAIN fields[k].v # {}
           THEN {<<k \o <<DOT>> \o e[1], e[2]>> : e \in flattenEntries(fields[k].v)}
           ELSE {<<k, fields[k]>>} : k \in DOMAIN fields}

flatten(fields) ==
    LET es == flattenEntries(fields)
    IN  [key \in {e[1] : e \in es} |-> (CHOOSE e \in es : e[1] = key)[2]]

\* objects over every subset of the keys, each field holding the value
ObjectsOver(keys, value) ==
    {ObjectValue([k \in ks |-> value]) : ks \in SUBSET keys}

InnerKeys == {<<"b">>, <<"d">>, <<"0">>}

\* what the key a holds: nothing, a number, an object of numbers, or an
\* object within an object
NestedValues ==
    {NumberValue(1)} \cup ObjectsOver(InnerKeys, NumberValue(1))
        \cup {ObjectValue(<<"b">> :> ObjectValue(<<"d">> :> NumberValue(1)))}

NestedRecords ==
    LET as == {<<>>} \cup {<<"a">> :> v : v \in NestedValues}
        cs == {<<>>, <<"c">> :> NumberValue(2)}
    IN  {a @@ c : a \in as, c \in cs}

RecordLists == UNION {[1..n -> NestedRecords] : n \in 0..MaxNestRows}

NestInit ==
    /\ userConfig = NoConfig
    /\ configuration = normalizeConfiguration(NoConfig)
    /\ input = OtherInput("undefined", 0)
    /\ ConverterIdle
    /\ ParserIdle
    /\ CleanerIdle
    /\ records \in RecordLists
    /\ flatRows = [i \in 1..Len(records) |-> flatten(records[i])]
    /\ entryOrder \in EntryOrders
    /\ nestedRows = <<>>
    /\ PipelineIdle
    /\ UtilityIdle

\* createNestedObjects(flatRows)
CreateNestedObjects ==
    /\ pc = "idle"
    /\ nestedRows' = createNestedObjects(flatRows, entryOrder)
    /\ pc' = "nested"
    /\ UNCHANGED <<convVars, detected, classified, parserVars, cleanerVars,
                   records, flatRows, entryOrder, pipelineVars, utilityVars>>

NestNext == CreateNestedObjects

NestSpec == NestInit /\ [][NestNext]_vars

(***************************************************************************)
(* SpreadsheetDataValidator.validateRow and the validation loop of         *)
(* processDataThroughPipeline.  A validator of the user is the table of    *)
(* what it does: "valid" returns {isValid: true}, "invalid" returns        *)
(* {isValid: false, errors: [e]}, "invalidWithoutErrors" returns           *)
(* {isValid: false}, "validWithWarning" returns {isValid: true, warnings:  *)
(* [w]}, and "throws" throws an Error.                                     *)
(***************************************************************************)
createValidationError(sheetName, rowIndex, message, columnName) ==
    [sheetName |-> sheetName, rowIndex |-> rowIndex, columnName |-> columnName,
     message |-> message, severity |-> "error"]

\* the error object a validator of the user returns in its errors
ReportedError(rowIndex, columnName) ==
    [sheetName |-> "", rowIndex |-> rowIndex, columnName |-> columnName,
     message |-> "reported", severity |-> "error"]

\* the warning a validator of the user returns in its warnings, with what
\* it is about
ReportedWarning(rowIndex, columnName) ==
    [sheetName |-> "", rowIndex |-> rowIndex, columnName |-> columnName,
     message |-> "reported", severity |-> "warning"]

\* SpreadsheetDataValidator.normalizeConfiguration: a validator left out is
\* replaced by one that returns {isValid: true}
rowValidatorOutcome(config, rowIndex) ==
    IF config.rowValidator = <<>> THEN "valid" ELSE config.rowValidator[1][rowIndex]

cellValidatorOutcome(config, columnName) ==
    IF config.cellValidator = <<>> THEN "valid" ELSE config.cellValidator[1][columnName]

\* applyCustomRowValidation: the errors it adds and the call it makes
applyCustomRowValidation(rowIndex, sheetName, config) ==
    LET customResult == rowValidatorOutcome(config, rowIndex)
    IN  [calls |-> <<<<"row", rowIndex, <<>>>>>>,
         thrown |-> FALSE,
         errors |-> CASE customResult = "throws" ->
                            <<createValidationError(sheetName, rowIndex,
                                                    "Row validation error", <<>>)>>
                      [] customResult = "invalid" -> <<ReportedError(rowIndex, <<>>)>>
                      [] OTHER -> <<>>,
         warnings |-> IF customResult = "validWithWarning"
                      THEN <<ReportedWarning(rowIndex, <<>>)>> ELSE <<>>]

\* entries(row): the columns in the order of the sheet
ColumnOrder == <<<<"x">>, <<"y">>>>

\* a cell validator whose exception is not caught
RECURSIVE applyCellLevelValidation_uncaught(_, _, _, _, _)
applyCellLevelValidation_uncaught(row, columns, rowIndex, sheetName, config) ==
    IF columns = <<>> THEN [calls |-> <<>>, thrown |-> FALSE, errors |-> <<>>, warnings |-> <<>>]
    ELSE LET columnName == Head(columns)
             cellValidation == cellValidatorOutcome(config, columnName)
             rest == applyCellLevelValidation_uncaught(row, Tail(columns), rowIndex,
                                                       sheetName, config)
             call == <<"cell", rowIndex, <<columnName>>>>
         IN  IF columnName \notin DOMAIN row THEN rest
             ELSE IF cellValidation = "throws"
                  THEN [calls |-> <<call>>, thrown |-> TRUE, errors |-> <<>>, warnings |-> <<>>]
                  ELSE [calls |-> <<call>> \o rest.calls,
                        thrown |-> rest.thrown,
                        errors |-> (IF cellValidation = "invalid"
                                    THEN <<ReportedError(rowIndex, <<columnName>>)>>
                                    ELSE <<>>) \o rest.errors,
                        warnings |-> (IF cellValidation = "validWithWarning"
                                      THEN <<ReportedWarning(rowIndex, <<columnName>>)>>
                                      ELSE <<>>) \o rest.warnings]

\* applyCellLevelValidation: the reduce over the entries of the row, each
\* call of the cell validator within its own try
RECURSIVE applyCellLevelValidation(_, _, _, _, _)
applyCellLevelValidation(row, columns, rowIndex, sheetName, config) ==
    IF columns = <<>> THEN [calls |-> <<>>, thrown |-> FALSE, errors |-> <<>>, warnings |-> <<>>]
    ELSE LET columnName == Head(columns)
             cellValidation == cellValidatorOutcome(config, columnName)
             rest == applyCellLevelValidation(row, Tail(columns), rowIndex,
                                              sheetName, config)
             added == CASE cellValidation = "throws" ->
                               <<createValidationError(sheetName, rowIndex,
                                                       "Cell validation error",
                                                       <<columnName>>)>>
                        [] cellValidation = "invalid" ->
                               <<ReportedError(rowIndex, <<columnName>>)>>
                        [] OTHER -> <<>>
         IN  IF columnName \notin DOMAIN row THEN rest
             ELSE [calls |-> <<<<"cell", rowIndex, <<columnName>>>>>> \o rest.calls,
                   thrown |-> rest.thrown,
                   errors |-> added \o rest.errors,
                   warnings |-> (IF cellValidation = "validWithWarning"
                                 THEN <<ReportedWarning(rowIndex, <<columnName>>)>>
                                 ELSE <<>>) \o rest.warnings]

\* validateRow on a row object: the result it returns, the calls it made and
\* whether an exception left it
validateRow(row, rowIndex, sheetName, config) ==
    LET rowPart == applyCustomRowValidation(rowIndex, sheetName, config)
        cellPart == IF rowPart.thrown
                    THEN [calls |-> <<>>, thrown |-> TRUE, errors |-> <<>>, warnings |-> <<>>]
                    ELSE applyCellLevelValidation(row, ColumnOrder, rowIndex,
                                                  sheetName, config)
        errors == rowPart.errors \o cellPart.errors
    IN  [isValid |-> errors = <<>>,
         errors |-> errors,
         warnings |-> rowPart.warnings \o cellPart.warnings,
         calls |-> rowPart.calls \o cellPart.calls,
         thrown |-> cellPart.thrown]

\* the row is pushed to the result of the validation loop
keepsRow(rowValidation, config) ==
    rowValidation.isValid \/ config.continueOnValidationError

RowOutcomes ==
    {"valid", "validWithWarning", "invalid", "invalidWithoutErrors", "throws"}
CellOutcomes == {"valid", "validWithWarning", "invalid", "throws"}

PipelineRowShapes ==
    {<<"x">> :> NumberValue(1),
     (<<"x">> :> NumberValue(1)) @@ (<<"y">> :> StringValue(<<"a">>))}

PipelineRowLists == UNION {[1..n -> PipelineRowShapes] : n \in 1..MaxValidatedRows}

ValidationConfigs ==
    [enableTypeValidation : BOOLEAN,
     continueOnValidationError : BOOLEAN,
     collectValidationErrors : BOOLEAN,
     rowValidator : {<<>>} \cup {<<f>> : f \in [0..(MaxValidatedRows - 1) -> RowOutcomes]},
     cellValidator : {<<>>} \cup {<<f>> : f \in [{<<"x">>, <<"y">>} -> CellOutcomes]}]

NewValidator ==
    [position |-> 0, validationErrors |-> <<>>, errorCount |-> 0,
     calls |-> <<>>, results |-> <<>>, kept |-> <<>>]

PipelineInit ==
    /\ userConfig = NoConfig
    /\ configuration = normalizeConfiguration(NoConfig)
    /\ input = OtherInput("undefined", 0)
    /\ ConverterIdle
    /\ ParserIdle
    /\ CleanerIdle
    /\ BuilderIdle
    /\ pipelineRows \in PipelineRowLists
    /\ validationConfig \in ValidationConfigs
    /\ validator = NewValidator
    /\ pipelineOutput = <<>>
    /\ pipelineMetadata = <<>>
    /\ UtilityIdle

\* one turn of the validation loop of processDataThroughPipeline
ValidateRow ==
    /\ pc \in {"idle", "validating"}
    /\ validator # <<>>
    /\ validationConfig.enableTypeValidation
    /\ validator.position < Len(pipelineRows)
    /\ LET index == validator.position
           row == pipelineRows[index + 1]
           rowValidation == validateRow(row, index, PARSED_SHEET_NAME, validationConfig)
           collected == IF validationConfig.collectValidationErrors
                        THEN rowValidation.errors ELSE <<>>
       IN  /\ validator' =
                  [position |-> index + 1,
                   validationErrors |-> validator.validationErrors \o collected,
                   errorCount |-> validator.errorCount + Len(collected),
                   calls |-> validator.calls \o rowValidation.calls,
                   results |-> Append(validator.results, rowValidation),
                   kept |-> IF ~rowValidation.thrown /\ keepsRow(rowValidation, validationConfig)
                            THEN Append(validator.kept, row)
                            ELSE validator.kept]
           /\ pc' = IF rowValidation.thrown THEN "failed" ELSE "validating"
    /\ UNCHANGED <<convVars, detected, classified, parserVars, cleanerVars, builderVars,
                   pipelineRows, validationConfig, pipelineOutput, pipelineMetadata,
                   utilityVars>>

\* the rest of processDataThroughPipeline, after the validation loop
FinishPipeline ==
    /\ pc \in {"idle", "validating"}
    /\ validator # <<>>
    /\ validationConfig.enableTypeValidation => validator.position = Len(pipelineRows)
    /\ pipelineOutput' =
           processDataThroughPipeline(
               IF validationConfig.enableTypeValidation THEN validator.kept
               ELSE pipelineRows,
               configuration)
    /\ pc' = "processed"
    /\ UNCHANGED <<convVars, detected, classified, parserVars, cleanerVars, builderVars,
                   pipelineRows, validationConfig, validator, pipelineMetadata,
                   utilityVars>>

\* finalizeResult: the metadata receive the errors the validator collected
FinalizePipelineResult ==
    /\ pc = "processed"
    /\ pipelineMetadata' = [validationErrors |-> validator.validationErrors]
    /\ pc' = "finalized"
    /\ UNCHANGED <<convVars, detected, classified, parserVars, cleanerVars, builderVars,
                   pipelineRows, validationConfig, validator, pipelineOutput,
                   utilityVars>>

PipelineNext ==
    \/ ValidateRow
    \/ FinishPipeline
    \/ FinalizePipelineResult

PipelineSpec == PipelineInit /\ [][PipelineNext]_vars

\* a specification of a utility starts from an idle converter and idle
\* components
OthersIdle ==
    /\ userConfig = NoConfig
    /\ configuration = normalizeConfiguration(NoConfig)
    /\ input = OtherInput("undefined", 0)
    /\ ConverterIdle
    /\ ParserIdle
    /\ CleanerIdle
    /\ BuilderIdle
    /\ PipelineIdle

othersVars ==
    <<convVars, detected, classified, parserVars, cleanerVars, builderVars, pipelineVars>>

(***************************************************************************)
(* HeaderProcessor.ensureUniqueHeaders.                                    *)
(***************************************************************************)
LowerCaseLetters ==
    {"a", "b", "c", "d", "e", "f", "g", "h", "i", "j", "k", "l", "m",
     "n", "o", "p", "q", "r", "s", "t", "u", "v", "w", "x", "y", "z"}

REPLACEMENT_CHAR == "_"

\* \w
IsWordChar(c) ==
    c \in UpperCaseLetters \cup LowerCaseLetters \cup DecimalDigits \cup {"_"}

\* replace(s, /[^\w\s]/g, '_')
replaceSpecialChars(s) ==
    [i \in 1..Len(s) |->
        IF IsWordChar(s[i]) \/ IsWhitespace(s[i]) THEN s[i] ELSE REPLACEMENT_CHAR]

\* replace(s, /\s+/g, '_') when ofSpaces, replace(s, /_+/g, '_') otherwise:
\* every run becomes one underscore
RECURSIVE replaceRuns(_, _)
replaceRuns(s, ofSpaces) ==
    LET InRun(c) == IF ofSpaces THEN IsWhitespace(c) ELSE c = "_"
    IN  IF s = <<>> THEN <<>>
        ELSE IF ~InRun(Head(s)) THEN <<Head(s)>> \o replaceRuns(Tail(s), ofSpaces)
        ELSE IF Len(s) > 1 /\ InRun(s[2]) THEN replaceRuns(Tail(s), ofSpaces)
        ELSE <<REPLACEMENT_CHAR>> \o replaceRuns(Tail(s), ofSpaces)

\* replace(s, /^_|_$/g, '')
stripEdgeUnderscores(s) ==
    LET t == IF s # <<>> /\ Head(s) = "_" THEN Tail(s) ELSE s
    IN  IF t # <<>> /\ t[Len(t)] = "_" THEN SubSeq(t, 1, Len(t) - 1) ELSE t

normalizeHeaderForProcessing(header) ==
    stripEdgeUnderscores(
        replaceRuns(
            replaceRuns(replaceSpecialChars(trim(toLowerCase(header))), TRUE),
            FALSE))

\* the decimal text of a count
DecimalText(n) ==
    LET digit(d) == CASE d = 0 -> "0" [] d = 1 -> "1" [] d = 2 -> "2" [] d = 3 -> "3"
                      [] d = 4 -> "4" [] d = 5 -> "5" [] d = 6 -> "6" [] d = 7 -> "7"
                      [] d = 8 -> "8" [] OTHER -> "9"
    IN  IF n < 10 THEN <<digit(n)>> ELSE <<digit(n \div 10), digit(n % 10)>>

\* the reduce of ensureUniqueHeaders: seen counts the headers by their
\* normalized text
RECURSIVE ensureUniqueHeadersFrom(_, _)
ensureUniqueHeadersFrom(headers, seen) ==
    IF headers = <<>> THEN <<>>
    ELSE LET header == Head(headers)
             normalizedHeader == normalizeHeaderForProcessing(header)
             count == IF normalizedHeader \in DOMAIN seen THEN seen[normalizedHeader]
                      ELSE 0
             uniqueHeader == IF count = 0 THEN header
                             ELSE header \o <<"_">> \o DecimalText(count)
         IN  <<uniqueHeader>>
                 \o ensureUniqueHeadersFrom(Tail(headers),
                                            (normalizedHeader :> (count + 1)) @@ seen)

ensureUniqueHeaders(headers) == ensureUniqueHeadersFrom(headers, <<>>)

HeaderTexts ==
    {<<"a">>, <<"A">>, <<"a", "!">>, <<"a", "_", "1">>, <<"b">>, <<" ", "b", " ", " ", "c">>}

HeaderLists == UNION {[1..n -> HeaderTexts] : n \in 0..MaxHeaders}

HeaderInit ==
    /\ OthersIdle
    /\ utilityCall \in {[op |-> "ensureUniqueHeaders", headers |-> hs] : hs \in HeaderLists}
    /\ utilityState = <<>>

\* HeaderProcessor.ensureUniqueHeaders(headers)
EnsureUniqueHeaders ==
    /\ pc = "idle"
    /\ utilityCall # <<>>
    /\ utilityCall.op = "ensureUniqueHeaders"
    /\ utilityState' = [result |-> ensureUniqueHeaders(utilityCall.headers)]
    /\ pc' = "done"
    /\ UNCHANGED <<othersVars, utilityCall>>

HeaderNext == EnsureUniqueHeaders

HeaderSpec == HeaderInit /\ [][HeaderNext]_vars

(***************************************************************************)
(* Custom transformers in a workbook conversion: ExcelParser applies them  *)
(* while it reads the sheet, SpreadsheetConverter.processDataThroughPipeline*)
(* applies transformRowData to the rows the parser returned.  A custom     *)
(* header transformer is modelled by one that marks its argument, a custom *)
(* value transformer by one that wraps its two arguments, so that every    *)
(* application is visible in the output.                                   *)
(***************************************************************************)
TransformerKinds == {"default", "custom"}

\* config.headerTransformer(header)
headerTransformer(kind, header) ==
    IF kind = "custom" THEN header \o <<"'">> ELSE header

TransformedValue(value, header) == [t |-> "transformed", v |-> <<value, header>>]

\* config.valueTransformer(value, header)
valueTransformer(kind, value, header) ==
    IF kind = "custom" THEN TransformedValue(value, header) ELSE value

\* the headers of a sheet whose first row holds a text in every column
transformedHeaders(headers, config) ==
    [c \in 1..Len(headers) |-> headerTransformer(config.headerTransformer, headers[c])]

\* the grids hold no dates and no booleans
processCellValue(value, config, columnKey) ==
    valueTransformer(config.valueTransformer, value, columnKey)

extractTransformedCellValue(cell, config, columnKey) ==
    IF cell = <<>> THEN NullValue ELSE processCellValue(cell[1], config, columnKey)

\* processDataRow from column col on
RECURSIVE processTransformedRowLoop(_, _, _, _, _)
processTransformedRowLoop(headers, cells, config, col, rowData) ==
    IF col > Len(cells) THEN rowData
    ELSE LET columnKey == IF headers[col] # <<>> THEN headers[col]
                          ELSE encode_col(col - 1)
         IN  processTransformedRowLoop(headers, cells, config, col + 1,
                 (columnKey :> extractTransformedCellValue(cells[col], config, columnKey))
                     @@ rowData)

\* parseWorksheet of a sheet made of a header row and one data row
parseTransformedWorksheet(headers, cells, config) ==
    LET rowData == processTransformedRowLoop(transformedHeaders(headers, config),
                                             cells, config, 1, <<>>)
    IN  IF hasNonEmptyData(rowData) THEN <<rowData>> ELSE <<>>

\* one turn of the loop of transformRowData per key; a later key replaces an
\* earlier one with the same new header
transformRowData(row, config) ==
    LET newHeader(header) == headerTransformer(config.headerTransformer, header)
        newKeys == {newHeader(header) : header \in DOMAIN row}
    IN  [k \in newKeys |->
            LET header == CHOOSE h \in DOMAIN row : newHeader(h) = k
            IN  valueTransformer(config.valueTransformer, row[header], k)]

hasCustomTransformers(config) ==
    config.headerTransformer = "custom" \/ config.valueTransformer = "custom"

\* the validators are the default ones and the headers hold no dot
transformingPipeline(data, config) ==
    LET cleanedData == processDataThroughPipeline(data, normalizeConfiguration(NoConfig))
    IN  IF hasCustomTransformers(config)
        THEN [i \in 1..Len(cleanedData) |-> transformRowData(cleanedData[i], config)]
        ELSE cleanedData

TransformHeaders == {<<"x">>, <<"n">>}

TransformCells == {<<>>, <<NumberValue(1)>>, <<StringValue(<<"s">>)>>}

TransformInit ==
    /\ OthersIdle
    /\ utilityCall \in
         {[op |-> "convertWorkbook", headers |-> hs, cells |-> cs,
           config |-> [headerTransformer |-> ht, valueTransformer |-> vt]] :
            hs \in UNION {[1..n -> TransformHeaders] : n \in 1..MaxTransformColumns},
            cs \in UNION {[1..n -> TransformCells] : n \in 1..MaxTransformColumns},
            ht \in TransformerKinds, vt \in TransformerKinds}
    /\ Len(utilityCall.headers) = Len(utilityCall.cells)
    /\ \A i, j \in 1..Len(utilityCall.headers) :
          utilityCall.headers[i] = utilityCall.headers[j] => i = j
    /\ utilityState = <<>>

\* parser.parseWorksheet(worksheet, sheetName, this.configuration)
ParseWithTransformers ==
    /\ pc = "idle"
    /\ utilityCall # <<>>
    /\ utilityCall.op = "convertWorkbook"
    /\ utilityState' = [rawData |-> parseTransformedWorksheet(utilityCall.headers,
                                        utilityCall.cells, utilityCall.config)]
    /\ pc' = "parsed"
    /\ UNCHANGED <<othersVars, utilityCall>>

\* this.processDataThroughPipeline(rawData, sheetName)
TransformThroughPipeline ==
    /\ pc = "parsed"
    /\ utilityCall # <<>>
    /\ utilityCall.op = "convertWorkbook"
    /\ utilityState' = [rawData |-> utilityState.rawData,
                        processedData |-> transformingPipeline(utilityState.rawData,
                                                               utilityCall.config)]
    /\ pc' = "done"
    /\ UNCHANGED <<othersVars, utilityCall>>

TransformNext == ParseWithTransformers \/ TransformThroughPipeline

TransformSpec == TransformInit /\ [][TransformNext]_vars

(***************************************************************************)
(* PerformanceOptimizer.processBatches, called directly and by             *)
(* SpreadsheetConverter.processDataThroughStreamingPipeline.  A batch size *)
(* is an integer or, when it comes from a property that does not exist,    *)
(* undefined; arithmetic on undefined gives NaN.  A number n is written    *)
(* <<n>>, undefined and NaN are written <<>>.                              *)
(***************************************************************************)
Num(n) == <<n>>
NaN == <<>>

IsNumber(x) == x # <<>>

\* a + b of JavaScript
Plus(a, b) == IF IsNumber(a) /\ IsNumber(b) THEN Num(a[1] + b[1]) ELSE NaN

\* Math.max(a, n) for a number n
MathMax(a, n) == IF IsNumber(a) THEN (IF a[1] > n THEN a ELSE Num(n)) ELSE NaN

\* PERFORMANCE has no property DEFAULT_STREAMING_BATCH_SIZE: undefined
DEFAULT_STREAMING_BATCH_SIZE == NaN

\* memoryInfo.percentage: above 80, above 60, or neither
MemoryLevels == {"high", "elevated", "normal"}

getOptimalBatchSize(defaultBatchSize, memory) ==
    CASE memory = "high" ->
            MathMax(IF IsNumber(defaultBatchSize) THEN Num(defaultBatchSize[1] \div 2)
                    ELSE NaN, 100)
      [] memory = "elevated" ->
            MathMax(IF IsNumber(defaultBatchSize)
                    THEN Num((3 * defaultBatchSize[1]) \div 4)
                    ELSE NaN, 500)
      [] OTHER -> defaultBatchSize

\* items.slice(i, end) for an integer i >= 0; an end that is NaN counts as 0;
\* the result is the sequence of the positions taken
slicePositions(items, i, end) ==
    IF IsNumber(end)
    THEN [k \in 1..((IF end[1] < Len(items) THEN end[1] ELSE Len(items)) - i[1]) |->
             i[1] + k]
    ELSE <<>>

\* i < items.length
loopContinues(i, items) == IsNumber(i) /\ i[1] < Len(items)

\* one turn of the loop of processBatches: the batch is cut with the batch
\* size of the turn before, i advances by the batch size the monitor returns
processBatchesTurn(st, items, monitor, memory) ==
    LET positions == slicePositions(items, st.i, Plus(st.i, st.batchSize))
        batch == [k \in 1..Len(positions) |-> items[positions[k]]]
        newSize == IF monitor THEN getOptimalBatchSize(st.batchSize, memory)
                   ELSE st.batchSize
    IN  [i |-> Plus(st.i, newSize),
         batchSize |-> newSize,
         passed |-> st.passed \o positions,
         processedData |-> st.processedData
             \o processDataThroughPipeline(batch, normalizeConfiguration(NoConfig))]

\* config.batchSize || this.performanceMonitor.getOptimalBatchSize(...)
streamingBatchSize(option, memory) ==
    IF option # <<>> /\ option[1] # 0 THEN Num(option[1])
    ELSE getOptimalBatchSize(DEFAULT_STREAMING_BATCH_SIZE, memory)

StreamKeys == {<<"n", "a", "m", "e">>, <<"b">>}

StreamValues == {NullValue, StringValue(<<"x">>)}

StreamDatasets == UNION {[1..n -> [StreamKeys -> StreamValues]] : n \in 0..MaxStreamRows}

BatchSizeOptions == {<<>>} \cup {<<b>> : b \in 0..MaxBatchSize}

\* this.configuration.performanceConfig?.concurrencyLimit || 4, and for the
\* streaming path Math.min(... || 2, 2), config.maxConcurrency not being given
sheetConcurrencyLimit(option, streaming) ==
    LET configured == IF option # <<>> /\ option[1] # 0 THEN option[1]
                      ELSE IF streaming THEN 2 ELSE DEFAULT_CONCURRENCY_LIMIT
    IN  IF streaming /\ configured > 2 THEN 2 ELSE configured

ConcurrencyOptions == {<<>>} \cup {<<l>> : l \in (-1)..MaxBatchSize}

TargetSheetLists == {[k \in 1..n |-> k] : n \in 0..MaxStreamRows}

StreamInit ==
    /\ OthersIdle
    /\ utilityCall \in
         {[op |-> o, data |-> d, batchSize |-> b, monitor |-> m] :
            o \in {"processDataThroughStreamingPipeline", "processBatches"},
            d \in StreamDatasets, b \in BatchSizeOptions, m \in BOOLEAN}
         \cup {[op |-> "processSheetsWithConcurrency", data |-> d, batchSize |-> l,
                monitor |-> FALSE, streaming |-> f] :
                  d \in TargetSheetLists, l \in ConcurrencyOptions, f \in BOOLEAN}
    /\ utilityCall.op = "processDataThroughStreamingPipeline" => utilityCall.monitor
    /\ utilityCall.op = "processBatches" => utilityCall.batchSize # <<>>
    /\ utilityState = <<>>

\* processDataThroughStreamingPipeline up to the first test of the loop
StartStreamingPipeline ==
    /\ pc = "idle"
    /\ utilityCall # <<>>
    /\ utilityCall.op = "processDataThroughStreamingPipeline"
    /\ \E memory \in MemoryLevels :
          utilityState' = [i |-> Num(0),
                           batchSize |-> streamingBatchSize(utilityCall.batchSize, memory),
                           passed |-> <<>>, processedData |-> <<>>]
    /\ pc' = "batching"
    /\ UNCHANGED <<othersVars, utilityCall>>

\* processBatches(items, processor, batchSize, monitor) up to the first test
StartProcessBatches ==
    /\ pc = "idle"
    /\ utilityCall # <<>>
    /\ utilityCall.op = "processBatches"
    /\ utilityState' = [i |-> Num(0), batchSize |-> utilityCall.batchSize,
                        passed |-> <<>>, processedData |-> <<>>]
    /\ pc' = "batching"
    /\ UNCHANGED <<othersVars, utilityCall>>

\* processSheetsWithConcurrency and processSheetsWithStreamingConcurrency up
\* to the first test of the loop
StartSheetBatches ==
    /\ pc = "idle"
    /\ utilityCall # <<>>
    /\ utilityCall.op = "processSheetsWithConcurrency"
    /\ utilityState' = [i |-> Num(0),
                        batchSize |-> Num(sheetConcurrencyLimit(utilityCall.batchSize,
                                                                utilityCall.streaming)),
                        passed |-> <<>>, processedData |-> <<>>]
    /\ pc' = "batching"
    /\ UNCHANGED <<othersVars, utilityCall>>

\* one turn of the loop over the target sheets: i += concurrencyLimit.  A
\* counter that moves backwards is followed down to -MaxBackwardTurns.
SheetBatchTurn ==
    /\ pc = "batching"
    /\ utilityCall.op = "processSheetsWithConcurrency"
    /\ loopContinues(utilityState.i, utilityCall.data)
    /\ utilityState.i[1] > -MaxBackwardTurns
    /\ utilityState' = [utilityState EXCEPT
                           !.i = Plus(utilityState.i, utilityState.batchSize),
                           !.passed = @ \o slicePositions(utilityCall.data, utilityState.i,
                                            Plus(utilityState.i, utilityState.batchSize))]
    /\ UNCHANGED <<othersVars, utilityCall, pc>>

\* one turn of the loop of processBatches
ProcessBatch ==
    /\ pc = "batching"
    /\ utilityCall.op # "processSheetsWithConcurrency"
    /\ loopContinues(utilityState.i, utilityCall.data)
    /\ \E memory \in MemoryLevels :
          utilityState' = processBatchesTurn(utilityState, utilityCall.data,
                                             utilityCall.monitor, memory)
    /\ UNCHANGED <<othersVars, utilityCall, pc>>

\* either loop ends and the results are returned
ReturnBatches ==
    /\ pc = "batching"
    /\ ~loopContinues(utilityState.i, utilityCall.data)
    /\ pc' = "done"
    /\ UNCHANGED <<othersVars, utilityVars>>

StreamNext ==
    \/ StartStreamingPipeline
    \/ StartProcessBatches
    \/ StartSheetBatches
    \/ SheetBatchTurn
    \/ ProcessBatch
    \/ ReturnBatches

StreamSpec == StreamInit /\ [][StreamNext]_vars

(***************************************************************************)
(* createNestedObjects on keys whose first segment names a property every  *)
(* object inherits.  The row under construction is a plain object: its     *)
(* __proto__ is Object.prototype and its constructor is the function       *)
(* Object, both shared by every object of the program.  The state records  *)
(* the properties the program has added to them.  isObject comes from a    *)
(* library that is not part of the repository: what it answers for a       *)
(* function is an input.  The dotted keys of the rows have two segments.   *)
(***************************************************************************)
PROTO == <<"_", "_", "p", "r", "o", "t", "o", "_", "_">>
CONSTRUCTOR == <<"c", "o", "n", "s", "t", "r", "u", "c", "t", "o", "r">>

\* setNestedValue(result, path, value) on the object under construction:
\* shared is the pair of property maps of Object.prototype and of Object
setNestedValueShared(acc, shared, path, value, isObjectOfFunction) ==
    LET key == path[1]
        lastKey == path[Len(path)]
    IN  CASE key \notin DOMAIN acc /\ key = PROTO /\ Len(path) = 2 ->
                \* key in currentObj, currentObj[key] is Object.prototype
                [acc |-> acc,
                 shared |-> [shared EXCEPT
                                !.objectPrototype = (lastKey :> value) @@ @]]
          [] key \notin DOMAIN acc /\ key = CONSTRUCTOR /\ isObjectOfFunction
                                   /\ Len(path) = 2 ->
                \* key in currentObj, currentObj[key] is the function Object
                [acc |-> acc,
                 shared |-> [shared EXCEPT
                                !.objectConstructor = (lastKey :> value) @@ @]]
          [] OTHER ->
                \* an own property, or none, or an inherited one that is not
                \* an object and is replaced by an own container
                [acc |-> setNestedValue(acc, FALSE, path, value), shared |-> shared]

\* processRowForNesting on a row, the entries taken in the given order
RECURSIVE processEntriesShared(_, _, _, _, _)
processEntriesShared(row, todo, order, st, isObjectOfFunction) ==
    IF todo = {} THEN st
    ELSE LET key == firstEntry(todo, order)
             next == IF Contains(key, {DOT})
                     THEN setNestedValueShared(st.acc, st.shared, split(key, DOT),
                                               row[key], isObjectOfFunction)
                     ELSE [acc |-> (key :> row[key]) @@ st.acc, shared |-> st.shared]
         IN  processEntriesShared(row, todo \ {key}, order, next, isObjectOfFunction)

hasDotNotationKeys(data) ==
    data # <<>> /\ \E key \in DOMAIN data[1] : Contains(key, {DOT})

SharedKeys ==
    {PROTO \o <<".", "p">>, CONSTRUCTOR \o <<".", "p">>,
     <<"p", "r", "o", "t", "o", "t", "y", "p", "e", ".", "p">>,
     <<"a", ".", "p">>, <<"p">>}

SharedRows == {k :> StringValue(<<"v">>) : k \in SharedKeys}

SharedInit ==
    /\ OthersIdle
    /\ utilityCall \in
         {[op |-> "createNestedObjects", data |-> d, isObjectOfFunction |-> f] :
            d \in UNION {[1..n -> SharedRows] : n \in 0..MaxSharedRows},
            f \in BOOLEAN}
    /\ utilityState = [built |-> <<>>,
                       shared |-> [objectPrototype |-> <<>>, objectConstructor |-> <<>>]]

\* map(data, row => this.processRowForNesting(row)): one row
NestSharedRow ==
    /\ pc \in {"idle", "nesting"}
    /\ utilityCall # <<>>
    /\ utilityCall.op = "createNestedObjects"
    /\ hasDotNotationKeys(utilityCall.data)
    /\ Len(utilityState.built) < Len(utilityCall.data)
    /\ LET row == utilityCall.data[Len(utilityState.built) + 1]
           st == processEntriesShared(row, DOMAIN row, "numericFirst",
                                      [acc |-> <<>>, shared |-> utilityState.shared],
                                      utilityCall.isObjectOfFunction)
       IN  utilityState' = [built |-> Append(utilityState.built, st.acc),
                            shared |-> st.shared]
    /\ pc' = "nesting"
    /\ UNCHANGED <<othersVars, utilityCall>>

\* createNestedObjects returns: the rows built, or the data itself when the
\* first row has no dotted key
ReturnNestedRows ==
    /\ pc \in {"idle", "nesting"}
    /\ utilityCall # <<>>
    /\ utilityCall.op = "createNestedObjects"
    /\ \/ /\ ~hasDotNotationKeys(utilityCall.data)
          /\ utilityState' = [utilityState EXCEPT !.built = utilityCall.data]
       \/ /\ hasDotNotationKeys(utilityCall.data)
          /\ Len(utilityState.built) = Len(utilityCall.data)
          /\ UNCHANGED utilityState
    /\ pc' = "done"
    /\ UNCHANGED <<othersVars, utilityCall>>

SharedNext == NestSharedRow \/ ReturnNestedRows

SharedSpec == SharedInit /\ [][SharedNext]_vars

(***************************************************************************)
(* One CsvParser used for several contents.                                *)
(***************************************************************************)
ReuseLines == {<<"a", ",", "b">>, <<"a", ";", "b">>, <<"a", TAB, "b">>}

ReuseContents == {joinLines(<<h, d>>) : h \in ReuseLines, d \in ReuseLines}

\* new CsvParser(config): normalizeConfiguration gives the fieldDelimiter ''
\* when none is configured
ReuseInit ==
    /\ OthersIdle
    /\ utilityCall \in
         {[op |-> "CsvParser", fieldDelimiter |-> d, contents |-> cs] :
            d \in {"", ";"},
            cs \in UNION {[1..n -> ReuseContents] : n \in 0..MaxParseCalls}}
    /\ utilityState = [configuration |-> [fieldDelimiter |-> utilityCall.fieldDelimiter],
                       returned |-> <<>>]

\* parser.parse(content) for the next content
ParseNextContent ==
    /\ utilityCall # <<>>
    /\ utilityCall.op = "CsvParser"
    /\ Len(utilityState.returned) < Len(utilityCall.contents)
    /\ LET content == utilityCall.contents[Len(utilityState.returned) + 1]
           parsed == CsvParser_parse(content, utilityState.configuration.fieldDelimiter)
       IN  utilityState' = [configuration |-> [fieldDelimiter |-> parsed[2]],
                            returned |-> Append(utilityState.returned, parsed[1])]
    /\ UNCHANGED <<othersVars, utilityCall, pc>>

ReuseNext == ParseNextContent

ReuseSpec == ReuseInit /\ [][ReuseNext]_vars

(***************************************************************************)
(* Properties.                                                             *)
(***************************************************************************)
Range(xs) == {xs[i] : i \in 1..Len(xs)}

\* the causes a rejection of convertToJson can carry
Causes ==
    {"Input validation failed: " \o m :
        m \in {"Input cannot be null or undefined", "File path or URL cannot be empty",
               "Invalid URL format", "File path contains invalid characters",
               "Input buffer is empty", "Unsupported input type"}}
    \cup {SourceErrorMessage, DecoderErrorMessage, SheetErrorMessage,
          STRING_INPUT_NOT_SUPPORTED, NO_SHEETS_FOUND, UNKNOWN_ERROR}

\* C1: convertToJson has exactly two outcomes: it resolves with a complete
\* result (data plus metadata), or it rejects with one Error whose message is
\* 'Spreadsheet conversion failed: ' followed by the cause; whenever a stage
\* throws, no result object is returned.
C1_TwoOutcomes ==
    /\ pc = "returned" =>
          \/ /\ outcome = "resolved"
             /\ result.present /\ result.finalized /\ Len(result.metadata) = 1
             /\ error = ""
             /\ thrownAt = ""
          \/ /\ outcome = "rejected"
             /\ ~result.present
             /\ \E cause \in Causes : error = "Spreadsheet conversion failed: " \o cause
    /\ pc \in {"idle", "preparing", "prepared", "batching", "finalizing"} =>
          outcome = "pending" /\ ~result.present
    /\ thrownAt # "" => outcome = "rejected" /\ ~result.present

\* a sheet of the batch succeeded, another one threw, and the call rejected
C1_Witness ==
    /\ pc = "returned"
    /\ thrownAt = "sheet"
    /\ outcome = "rejected"
    /\ \E k \in DOMAIN task : task[k] = "fulfilled"

\* the path shapes hasInvalidPathCharacters lets through, as the claim lists them
C2_PathShape(text) ==
    \/ (Len(text) >= 3 /\ text[1] \in Letters /\ text[2] = ":" /\ text[3] = BSLASH)
    \/ (Len(text) >= 2 /\ SubSeq(text, 1, 2) = <<".", "/">>)
    \/ (Len(text) >= 3 /\ SubSeq(text, 1, 3) = <<".", ".", "/">>)
    \/ (Len(text) >= 1 /\ text[1] = "/")

C2_HttpScheme(text) ==
    \/ (Len(text) >= 5 /\ SubSeq(text, 1, 5) = <<"h", "t", "t", "p", ":">>)
    \/ (Len(text) >= 6 /\ SubSeq(text, 1, 6) = <<"h", "t", "t", "p", "s", ":">>)

C2_Invalid(in) ==
    \/ in.kind \in {"null", "undefined", "number", "object"}
    \/ /\ in.kind = "string"
       /\ \/ \A i \in 1..Len(in.text) : IsWhitespace(in.text[i])
          \/ C2_HttpScheme(in.text) /\ URLProtocol(in.text) = ""
          \/ /\ \E i \in 1..Len(in.text) : in.text[i] \in {"<", ">", QUOTE, "|", "?", "*"}
             /\ ~C2_PathShape(in.text)
    \/ in.kind \in BufferKinds /\ in.length = 0

\* C2: validateInput returns isValid=false with at least one error for null or
\* undefined input, an unsupported type, an empty or whitespace-only string,
\* an empty buffer, a malformed URL, or a string with one of < > " | ? * that
\* has no recognized path shape; it returns isValid=true for every other input.
C2_ValidateInput ==
    pc \notin {"idle", "detected", "classified"} =>
        /\ validation.isValid = ~C2_Invalid(input)
        /\ ~validation.isValid => Len(validation.errors) >= 1

\* C3: every string input that is CSV text (isCsvContent is true of it,
\* whichever delimiter it uses, quoted fields or not) passes input validation,
\* is dispatched to the CSV parser, and convertToJson resolves with the
\* parser's rows run through the pipeline as a plain array.
C3_CsvTextConverts ==
    (input.kind = "string" /\ isCsvContent(input.text)) =>
        /\ pc \notin {"idle", "detected", "classified"} => validation.isValid
        /\ pc = "returned" =>
              /\ route = "csv"
              /\ outcome = "resolved"
              /\ result.data.shape = "array"
              /\ result.data.rows =
                    processDataThroughPipeline(
                        CsvParser_parse(input.text, configuration.fieldDelimiter)[1],
                        configuration)

C4_Expected(selection, available) ==
    LET Known(name) == name \in Range(available)
        InRange(index) == index >= 0 /\ index < Len(available)
        valid == SelectSeq(selection.list, InRange)
    IN  CASE selection.mode = "all" -> available
          [] selection.mode = "first" ->
                IF Len(available) >= 1 THEN <<available[1]>> ELSE <<>>
          [] selection.mode = "names" -> SelectSeq(selection.list, Known)
          [] selection.mode = "indices" ->
                [i \in 1..Len(valid) |-> available[valid[i] + 1]]

\* C4: sheet selection gives every sheet in workbook order for 'all', the first
\* sheet for 'first', the listed names that exist (caller order, unknown names
\* dropped) for a list of names, the names at the in-range indices (caller
\* order) for a list of numbers; an empty resolved list fails the conversion
\* with 'No sheets found to process' before any sheet is extracted.
C4_SheetSelection ==
    (route = "workbook" /\ preparedInput.kind = "binary" /\ preparedInput.sheets >= 0) =>
        LET expected == C4_Expected(configuration.sheetSelection,
                                    WorkbookSheetNames(preparedInput.sheets))
        IN  IF Len(expected) = 0
            THEN /\ pc = "returned"
                 /\ outcome = "rejected"
                 /\ error = "Spreadsheet conversion failed: No sheets found to process"
                 /\ task = <<>>
                 /\ results = <<>>
            ELSE /\ targetSheets = expected
                 /\ thrownAt # "selection"

\* a list of names in another order than the workbook's, an unknown one dropped
C4_Witness ==
    /\ pc = "batching"
    /\ configuration.sheetSelection.mode = "names"
    /\ "Missing" \in Range(configuration.sheetSelection.list)
    /\ targetSheets = <<"Sheet2">>

C5_DataOf(name) == parseWorksheet(name)

\* C5 as stated: for every workbook with at least one sheet, 'first' yields a
\* plain array of row records and 'all' yields a mapping from sheet name to
\* that sheet's array of row records.
C5_ShapeByMode ==
    (outcome = "resolved" /\ route = "workbook" /\ preparedInput.sheets >= 1) =>
        /\ configuration.sheetSelection.mode = "first" =>
              /\ result.data.shape = "array"
              /\ result.data.rows = C5_DataOf("Sheet1")
        /\ configuration.sheetSelection.mode = "all" =>
              /\ result.data.shape = "object"
              /\ DOMAIN result.data.sheets = Range(WorkbookSheetNames(preparedInput.sheets))
              /\ \A n \in DOMAIN result.data.sheets :
                    result.data.sheets[n] = C5_DataOf(n)

\* C5, amended: 'first' yields a plain array of the first sheet's row records;
\* 'all' yields a mapping from sheet name to that sheet's rows when the
\* workbook has two or more sheets, and the plain array of the only sheet's
\* rows when it has exactly one.
C5_ShapeByModeAndCount ==
    (outcome = "resolved" /\ route = "workbook" /\ preparedInput.sheets >= 1) =>
        /\ configuration.sheetSelection.mode = "first" =>
              /\ result.data.shape = "array"
              /\ result.data.rows = C5_DataOf("Sheet1")
        /\ (configuration.sheetSelection.mode = "all" /\ preparedInput.sheets >= 2) =>
              /\ result.data.shape = "object"
              /\ DOMAIN result.data.sheets = Range(WorkbookSheetNames(preparedInput.sheets))
              /\ \A n \in DOMAIN result.data.sheets :
                    result.data.sheets[n] = C5_DataOf(n)
        /\ (configuration.sheetSelection.mode = "all" /\ preparedInput.sheets = 1) =>
              /\ result.data.shape = "array"
              /\ result.data.rows = C5_DataOf("Sheet1")

\* 'all' on a workbook of one sheet has resolved
C5_Witness ==
    /\ outcome = "resolved"
    /\ route = "workbook"
    /\ configuration.sheetSelection.mode = "all"
    /\ preparedInput.sheets = 1

\* the configured limit, 4 when the caller gave none
C6_Limit ==
    IF userConfig.concurrencyLimit = <<>> THEN 4 ELSE userConfig.concurrencyLimit[1]

\* C6: the selected sheets are processed in consecutive batches of at most
\* concurrencyLimit sheets (default 4): never more than concurrencyLimit
\* sheets are in flight, no sheet of a batch starts before every sheet of the
\* previous batches has completed, and the results are collected in
\* selection order.
C6_BoundedBatches ==
    (route = "workbook" /\ targetSheets # <<>>) =>
        LET n == Len(targetSheets)
        IN  /\ Cardinality({k \in 1..n : task[k] = "pending"}) <= C6_Limit
            /\ \A k \in 1..n :
                  task[k] # "notStarted" =>
                      \A j \in 1..(((k - 1) \div C6_Limit) * C6_Limit) :
                          task[j] = "fulfilled"
            /\ Len(results) <= n
            /\ \A i \in 1..Len(results) :
                  /\ results[i].metadata.name = targetSheets[i]
                  /\ results[i].metadata.index = i - 1
                  /\ results[i].data = parseWorksheet(targetSheets[i])
            /\ outcome = "resolved" => Len(results) = n

\* five sheets under the default limit: four collected, the fifth in flight
C6_Witness ==
    /\ userConfig.concurrencyLimit = <<>>
    /\ Len(targetSheets) = 5
    /\ Len(results) = 4
    /\ task[5] = "pending"

\* C7: when a sheet of a batch fails, no sheet of a later batch is ever
\* started, and convertToJson rejects without returning the results of the
\* sheets that succeeded.
C7_FailureAborts ==
    \A k \in DOMAIN task :
        task[k] \in {"rejected", "rejectedNonError"} =>
            /\ \A j \in DOMAIN task :
                  j > (((k - 1) \div C6_Limit) + 1) * C6_Limit => task[j] = "notStarted"
            /\ pc # "finalizing"
            /\ outcome # "resolved"
            /\ ~result.present
            /\ pc = "returned" => outcome = "rejected"

\* a sheet of the second batch failed after the first batch was collected,
\* a third batch was never started, and the call rejected
C7_Witness ==
    /\ pc = "returned"
    /\ outcome = "rejected"
    /\ Len(results) > 0
    /\ \E k \in DOMAIN task : task[k] \in {"rejected", "rejectedNonError"}
    /\ \E j \in DOMAIN task : task[j] = "notStarted"

\* the field count the rule speaks of: one more than the number of
\* occurrences of the candidate outside quotes
C8_FieldCount(line, candidate) ==
    1 + Cardinality({i \in 1..Len(line) :
            /\ line[i] = candidate
            /\ Cardinality({j \in 1..(i - 1) : line[j] = QUOTE}) % 2 = 0})

C8_IsBlank(line) == \A i \in 1..Len(line) : IsWhitespace(line[i])

C8_NonBlank(lines) == SelectSeq(lines, LAMBDA line : ~C8_IsBlank(line))

C8_FirstUpTo(lines, k) == SubSeq(lines, 1, IF Len(lines) < k THEN Len(lines) ELSE k)

\* the sample as stated: the first up to 10 of the non-blank lines
C8_SampleSkippingBlanks(content) ==
    C8_FirstUpTo(C8_NonBlank(split(content, NL)), 10)

\* the sample as coded: the non-blank lines among the first 10 lines
C8_SampleOfFirstTen(content) ==
    C8_NonBlank(C8_FirstUpTo(split(content, NL), 10))

\* 0.7 * consistency + 0.3 * richness of a candidate over a sample of n >= 2
\* lines, as a rational.  With D the sum of (n*c - S)^2 over the counts c,
\* variance/mean is D / (n^2 * S); richness is min(1, mean/5).
C8_Score(sample, candidate) ==
    LET n == Len(sample)
        c == [i \in 1..n |-> C8_FieldCount(sample[i], candidate)]
        S == SumOf(c)
        D == SumOf([i \in 1..n |-> (n * c[i] - S) * (n * c[i] - S)])
        A == IF S > n /\ n * n * S > D THEN n * n * S - D ELSE 0
        R == IF 5 * n < S THEN 5 * n ELSE S
    IN  [num |-> 35 * A + 3 * R * n * S, den |-> 50 * n * n * S]

C8_Candidates == <<",", ";", TAB, "|">>

\* the earliest candidate among those of highest score
C8_Rule(sample) ==
    IF Len(sample) < 2 THEN ","
    ELSE LET k == CHOOSE k \in 1..4 :
                    /\ \A j \in 1..4 :
                          ~RatGT(C8_Score(sample, C8_Candidates[j]),
                                 C8_Score(sample, C8_Candidates[k]))
                    /\ \A j \in 1..(k - 1) :
                          RatGT(C8_Score(sample, C8_Candidates[k]),
                                C8_Score(sample, C8_Candidates[j]))
         IN  C8_Candidates[k]

\* every sample line has the same k >= 2 fields under the candidate of index
\* k and one field under the others
C8_Uniform(sample, k) ==
    /\ Len(sample) >= 2
    /\ C8_FieldCount(sample[1], C8_Candidates[k]) >= 2
    /\ \A i \in 1..Len(sample) :
          /\ C8_FieldCount(sample[i], C8_Candidates[k]) =
                C8_FieldCount(sample[1], C8_Candidates[k])
          /\ \A j \in (1..4) \ {k} : C8_FieldCount(sample[i], C8_Candidates[j]) = 1

C9_PairwiseSq(c) ==
    SumOf([i \in 1..Len(c) |->
        SumOf([j \in 1..Len(c) |->
            IF j > i THEN (c[i] - c[j]) * (c[i] - c[j]) ELSE 0])])

C9_Counts(lines, candidate) ==
    [i \in 1..Len(lines) |-> C8_FieldCount(lines[i], candidate)]

\* max(0, 1 - variance/mean) > 0.8 with mean > 1, over counts c:
\* variance/mean = (n*Q - S^2)/(n*S) < 1/5
C9_DetectorMeasureAbove(c) ==
    LET n == Len(c)
        S == SumOf(c)
    IN  /\ n >= 2
        /\ S > n
        /\ 5 * C9_PairwiseSq(c) < n * S

\* max(0, 1 - sqrt(variance)/mean) > 0.8 over counts c:
\* variance/mean^2 = (n*Q - S^2)/S^2 < 1/25
C9_VariationMeasureAbove(c) ==
    LET S == SumOf(c)
    IN  /\ Len(c) >= 2
        /\ 25 * C9_PairwiseSq(c) < S * S

\* C9 as stated: isCsvContent is false on a file-path or URL shape, and
\* otherwise true exactly when some candidate has max(0, 1 - variance/mean)
\* (0 when mean <= 1) above 0.8 over the sampled lines and some sampled line
\* splits into more than one field.
C9_LooksLikeCsv ==
    pc = "classified" =>
        LET sample == C8_SampleOfFirstTen(input.text)
        IN  classified =
                /\ ~isFilePath(input.text)
                /\ \E k \in 1..4 :
                      /\ C9_DetectorMeasureAbove(C9_Counts(sample, C8_Candidates[k]))
                      /\ \E i \in 1..Len(sample) :
                            C8_FieldCount(sample[i], C8_Candidates[k]) > 1

\* C9, amended: isCsvContent is false on a file-path or URL shape and on
\* text of a single line, and otherwise true exactly when, for some candidate
\* delimiter, max(0, 1 - standardDeviation/mean) of the field counts of the
\* non-blank lines among the first 10 lines exceeds 0.8 (0 with fewer than
\* two such lines) and some line among the first 10 splits into more than
\* one field.
C9_LooksLikeCsvByVariation ==
    pc = "classified" =>
        LET firstTen == C8_FirstUpTo(split(input.text, NL), 10)
            sample == C8_NonBlank(firstTen)
        IN  classified =
                /\ ~isFilePath(input.text)
                /\ Len(firstTen) >= 2
                /\ \E k \in 1..4 :
                      /\ C9_VariationMeasureAbove(C9_Counts(sample, C8_Candidates[k]))
                      /\ \E i \in 1..Len(firstTen) :
                            C8_FieldCount(firstTen[i], C8_Candidates[k]) > 1

\* a text that the variance/mean measure accepts and the detector refused
C9_Witness ==
    /\ pc = "classified"
    /\ ~classified
    /\ ~isFilePath(input.text)
    /\ \E k \in 1..4 :
          LET c == C9_Counts(C8_SampleOfFirstTen(input.text), C8_Candidates[k])
          IN  C9_DetectorMeasureAbove(c) /\ ~C9_VariationMeasureAbove(c)

\* C10: with no CSV delimiter supplied by the caller, convertToJson on CSV
\* text splits the fields with the delimiter detectOptimalDelimiter returns
\* for that text.
C10_AutoDetectedDelimiter ==
    (route = "csv" /\ userConfig.fieldDelimiter = <<>>
        /\ pc \in {"finalizing", "returned"}) =>
        /\ parserDelimiter = detectOptimalDelimiter(preparedInput.text)
        /\ outcome = "resolved" =>
              result.data.rows =
                  processDataThroughPipeline(
                      parseCsvInternal(preparedInput.text,
                                       detectOptimalDelimiter(preparedInput.text)),
                      configuration)

\* the number of columns of the worksheet's used range
C11_Columns == LastCol(worksheet) + 1

\* C11: the headers resolved for one sheet extraction pass are pairwise
\* distinct (a repeated header text gets a distinguishing suffix), so no two
\* columns of the sheet map to the same row-record key and every row record
\* holds one field per column, none overwritten by another column's value.
C11_DistinctHeaders ==
    /\ pc \in {"headers", "parsed"} =>
          \A c1, c2 \in DOMAIN extraction.headers :
              c1 # c2 => extraction.headers[c1] # extraction.headers[c2]
    /\ pc = "parsed" =>
          \A i \in 1..Len(extraction.rows) :
              Cardinality(DOMAIN extraction.rows[i] \ {SHEET_KEY}) = C11_Columns

\* the options of a caller who configures nothing
C12_DefaultOptions == SheetOptions("converter", <<>>, <<>>, <<>>, <<>>, <<>>)

\* a header cell that is absent or holds no text but whitespace
C12_Blank(cell) ==
    \/ cell = <<>>
    \/ cell[1].t = "string" /\ \A i \in 1..Len(cell[1].v) : IsWhitespace(cell[1].v[i])

\* a text without its line breaks and its surrounding whitespace
C12_Clean(text) ==
    LET kept == SelectSeq(text, LAMBDA c : c \notin {NL, "\r"})
        inner == {i \in 1..Len(kept) : ~IsWhitespace(kept[i])}
    IN  IF inner = {} THEN <<>>
        ELSE SubSeq(kept, CHOOSE i \in inner : \A j \in inner : i <= j,
                          CHOOSE i \in inner : \A j \in inner : i >= j)

\* C12: with the default configuration, a column whose header cell is absent
\* or blank gets a unique placeholder header Empty_Header_<unique>, and every
\* present header is used with its line breaks removed and its surrounding
\* whitespace trimmed.
C12_HeaderNormalization ==
    (pc \in {"headers", "parsed"} /\ sheetOptions = C12_DefaultOptions) =>
        LET headerRow == extraction.startRow - 1
            columns == {encode_col(col) : col \in 0..LastCol(worksheet)}
            cellOf(c) == CellAt(worksheet, headerRow,
                                CHOOSE col \in 0..LastCol(worksheet) : encode_col(col) = c)
        IN  /\ DOMAIN extraction.headers = columns
            /\ \A c \in columns :
                  IF C12_Blank(cellOf(c))
                  THEN /\ Len(extraction.headers[c]) = 2
                       /\ extraction.headers[c][1] = "Empty_Header_"
                       /\ \A d \in columns \ {c} :
                             extraction.headers[d] # extraction.headers[c]
                  ELSE extraction.headers[c] = C12_Clean(StringOf(cellOf(c)[1]))

\* strictly more than 70% of the resolved headers are one or two upper-case
\* letters
C13_MostlyBareLetters(headers) ==
    LET bare == {c \in DOMAIN headers :
                    /\ Len(headers[c]) >= 1 /\ Len(headers[c]) <= 2
                    /\ \A i \in 1..Len(headers[c]) : headers[c][i] \in UpperCaseLetters}
    IN  /\ DOMAIN headers # {}
        /\ 10 * Cardinality(bare) > 7 * Cardinality(DOMAIN headers)

\* the headers of row h, and those of row h + 1 resolved after them
C13_HeadersOfRow(h) ==
    extractHeadersFromRow(worksheet, h, SheetConfiguration(sheetOptions), 0)

C13_HeadersOfNextRow(h) ==
    extractHeadersFromRow(worksheet, h + 1, SheetConfiguration(sheetOptions),
                          C13_HeadersOfRow(h)[2])[1]

\* C13 as stated: for every sheet and configured header row index h, when
\* strictly more than 70% of the headers of row h are bare 1-2 upper-case
\* letter tokens the headers are re-resolved from row h+1 and the first data
\* row is h+2; otherwise the headers of row h are kept and the first data
\* row is h+1.
C13_ColumnLetterRows ==
    (pc \in {"headers", "parsed"}
        /\ SheetConfiguration(sheetOptions).headerRowIndex # <<>>) =>
        LET h == SheetConfiguration(sheetOptions).headerRowIndex[1]
        IN  IF C13_MostlyBareLetters(C13_HeadersOfRow(h)[1])
            THEN /\ extraction.headers = C13_HeadersOfNextRow(h)
                 /\ extraction.startRow = h + 2
            ELSE /\ extraction.headers = C13_HeadersOfRow(h)[1]
                 /\ extraction.startRow = h + 1

\* C13, amended: when strictly more than 70% of the headers of row h are
\* bare 1-2 upper-case letter tokens and row h+1 lies within the sheet's used
\* range, the headers are re-resolved from row h+1 and the first data row is
\* h+2; otherwise (also when row h is the last row of the sheet) the headers
\* of row h are kept and the first data row is h+1.
C13_ColumnLetterRowsWithinRange ==
    (pc \in {"headers", "parsed"}
        /\ SheetConfiguration(sheetOptions).headerRowIndex # <<>>) =>
        LET h == SheetConfiguration(sheetOptions).headerRowIndex[1]
        IN  IF C13_MostlyBareLetters(C13_HeadersOfRow(h)[1]) /\ h + 1 < Len(worksheet)
            THEN /\ extraction.headers = C13_HeadersOfNextRow(h)
                 /\ extraction.startRow = h + 2
            ELSE /\ extraction.headers = C13_HeadersOfRow(h)[1]
                 /\ extraction.startRow = h + 1

\* eight of ten headers were column letters and the next row became the
\* header row
C13_Witness ==
    /\ pc = "parsed"
    /\ Len(worksheet[1]) = 10
    /\ Cardinality({c \in DOMAIN C13_HeadersOfRow(0)[1] :
            Len(C13_HeadersOfRow(0)[1][c]) = 1}) = 8
    /\ extraction.startRow = 2
    /\ Len(extraction.rows) = 1

\* C14: when the configuration says there is no header row (hasHeaderRow
\* false), no headers are resolved, extraction starts at row 0 and every
\* emitted row is keyed by the raw column letters.
C14_NoHeaderRow ==
    (pc \in {"headers", "parsed"} /\ sheetOptions.hasHeaderRow = <<FALSE>>) =>
        /\ extraction.headers = <<>>
        /\ extraction.startRow = 0
        /\ \A i \in 1..Len(extraction.rows) :
              DOMAIN extraction.rows[i] \ {SHEET_KEY} =
                  {encode_col(col) : col \in 0..LastCol(worksheet)}

\* the key of a column: its resolved header, or its letter when it has none
C15_KeyOf(col) ==
    IF encode_col(col) \in DOMAIN extraction.headers
    THEN extraction.headers[encode_col(col)]
    ELSE encode_col(col)

C15_ColumnKeys == {C15_KeyOf(col) : col \in 0..LastCol(worksheet)}

\* the record of grid row r: under each key the value of the cell of the
\* (last) column carrying that key, null when the grid holds no such cell
C15_RecordOf(r) ==
    [k \in C15_ColumnKeys |->
        LET col == CHOOSE c \in 0..LastCol(worksheet) :
                       /\ C15_KeyOf(c) = k
                       /\ \A d \in 0..LastCol(worksheet) : C15_KeyOf(d) = k => d <= c
        IN  IF CellAt(worksheet, r, col) = <<>> THEN NullValue
            ELSE CellAt(worksheet, r, col)[1]]

\* C15: all row records returned by one parseWorksheet call have the same
\* key set, the resolved header (or the column letter) of each column of the
\* used range plus _sheet when shouldIncludeSheetName is set, and a cell
\* absent from the grid yields an explicit null under its key, never a
\* missing key.
C15_ConsistentKeys ==
    pc = "parsed" =>
        LET withSheet == SheetConfiguration(sheetOptions).shouldIncludeSheetName
            keys == C15_ColumnKeys \cup (IF withSheet THEN {SHEET_KEY} ELSE {})
        IN  \A i \in 1..Len(extraction.rows) :
                /\ DOMAIN extraction.rows[i] = keys
                /\ \E r \in extraction.startRow..LastRow(worksheet) :
                      \A k \in C15_ColumnKeys :
                          extraction.rows[i][k] = C15_RecordOf(r)[k]

\* two rows came back with the sheet name, one of them with a null beside a
\* value
C15_Witness ==
    /\ pc = "parsed"
    /\ Len(extraction.rows) >= 2
    /\ \E i \in 1..Len(extraction.rows) :
          /\ SHEET_KEY \in DOMAIN extraction.rows[i]
          /\ \E k \in DOMAIN extraction.rows[i] : extraction.rows[i][k] = NullValue
          /\ \E k \in DOMAIN extraction.rows[i] \ {SHEET_KEY} :
                extraction.rows[i][k] # NullValue

\* a meaningful value: neither null nor undefined nor a blank text
C16_Meaningful(value) ==
    ~(value = NullValue \/ (value.t = "string" /\ \A i \in 1..Len(value.v) : IsWhitespace(value.v[i])))

C16_IndexNames ==
    {<<"i", "n", "d", "e", "x">>, <<"r", "o", "w">>, <<"r", "o", "w", "n", "u", "m">>,
     <<"r", "o", "w", "n", "u", "m", "b", "e", "r">>, <<"#">>}

C16_IndexLike(key, value) ==
    /\ \/ key # <<>> /\ \A i \in 1..Len(key) : key[i] \in DecimalDigits
       \/ Len(key) = 1 /\ key[1] \in UpperCaseLetters
       \/ toLowerCase(key) \in C16_IndexNames
    /\ value.t = "number" /\ Len(value.v) = 1 /\ value.v[1] > 0

C16_Keeps(row) ==
    LET meaningful == {k \in DOMAIN row : C16_Meaningful(row[k])}
    IN  \/ Cardinality(meaningful) >= 2
        \/ /\ Cardinality(meaningful) = 1
           /\ \A k \in meaningful : ~C16_IndexLike(k, row[k])

\* C16: with skipEmptyRows and ignoreIndexOnlyRows true, cleanDataset keeps
\* exactly the rows with two or more meaningful fields or one meaningful field
\* that is not index-like (index key and positive integer value), in input
\* order; of a kept row only columns empty in every kept row are taken away.
C16_RowEmptiness ==
    (pc \in {"cleaned", "recleaned"} /\ cleanArgs.skipEmptyRows
        /\ cleanArgs.ignoreIndexOnlyRows) =>
        LET kept == SelectSeq(dataset, C16_Keeps)
            out == cleaned[1]
        IN  /\ Len(out) = Len(kept)
            /\ \A j \in 1..Len(out) :
                  /\ DOMAIN out[j] \subseteq DOMAIN kept[j]
                  /\ \A k \in DOMAIN out[j] : out[j][k] = kept[j][k]
                  /\ \A k \in DOMAIN kept[j] \ DOMAIN out[j] :
                        \A i \in 1..Len(kept) :
                            k \in DOMAIN kept[i] => ~C16_Meaningful(kept[i][k])
            /\ ~cleanArgs.skipEmptyColumns => out = kept

\* {A: 3} was dropped and a row after it was kept
C16_Witness ==
    /\ pc = "cleaned"
    /\ cleanArgs.skipEmptyRows /\ cleanArgs.ignoreIndexOnlyRows
    /\ Len(dataset) = 2
    /\ dataset[1] = (<<"A">> :> NumberValue(3))
    /\ Len(cleaned[1]) = 1

\* {name: 3} was kept
C16_WitnessName ==
    /\ pc = "cleaned"
    /\ cleanArgs.skipEmptyRows /\ cleanArgs.ignoreIndexOnlyRows
    /\ Len(dataset) = 1
    /\ dataset[1] = (<<"n", "a", "m", "e">> :> NumberValue(3))
    /\ cleaned[1] = dataset

\* C17: cleanDataset is idempotent: cleaning with (true, true) the rows that
\* cleaning with (true, true) returned gives the same rows, in the same order,
\* with the same keys and values.
C17_Idempotent ==
    (pc = "recleaned" /\ cleanArgs.skipEmptyRows /\ cleanArgs.skipEmptyColumns
        /\ cleanArgs.ignoreIndexOnlyRows) =>
        cleaned[2] = cleaned[1]

\* the first cleaning took away a row and a column, the second nothing
C17_Witness ==
    /\ pc = "recleaned"
    /\ cleanArgs.skipEmptyRows /\ cleanArgs.skipEmptyColumns
    /\ cleanArgs.ignoreIndexOnlyRows
    /\ Len(dataset) = 2
    /\ Len(cleaned[1]) = 1
    /\ DOMAIN cleaned[1][1] # DOMAIN dataset[1]
    /\ DOMAIN cleaned[1][1] # DOMAIN dataset[2]
    /\ cleaned[2] = cleaned[1]

\* a record holds a nested object with fields
C18_HasNesting(record) ==
    \E k \in DOMAIN record : record[k].t = "object" /\ DOMAIN record[k].v # {}

\* below the top level no key is a text of digits
RECURSIVE C18_NoNumericKeys(_)
C18_NoNumericKeys(value) ==
    value.t = "object" =>
        \A k \in DOMAIN value.v :
            /\ ~NUMERIC_INDEX_REGEX(k)
            /\ C18_NoNumericKeys(value.v[k])

C19_Count(call) ==
    Cardinality({n \in 1..Len(validator.calls) : validator.calls[n] = call})

C19_Rows == 1..Len(validator.results)

\* C19: validateRow never throws: the row validator is called once per row
\* and the cell validator once per field, an exception of either becomes a
\* validation error with the sheet name, the row index and (for a cell) the
\* column name, and the remaining fields and rows are still validated.
C19_ValidatorsNeverAbort ==
    validator # <<>> =>
        /\ pc # "failed"
        /\ \A j \in C19_Rows : ~validator.results[j].thrown
        /\ \A j \in C19_Rows : C19_Count(<<"row", j - 1, <<>>>>) = 1
        /\ \A j \in C19_Rows : \A k \in {<<"x">>, <<"y">>} :
              C19_Count(<<"cell", j - 1, <<k>>>>) =
                  (IF k \in DOMAIN pipelineRows[j] THEN 1 ELSE 0)
        /\ \A j \in C19_Rows :
              rowValidatorOutcome(validationConfig, j - 1) = "throws" =>
                  \E n \in 1..Len(validator.results[j].errors) :
                      LET e == validator.results[j].errors[n]
                      IN  /\ e.sheetName = PARSED_SHEET_NAME
                          /\ e.rowIndex = j - 1
                          /\ e.message = "Row validation error"
        /\ \A j \in C19_Rows : \A k \in DOMAIN pipelineRows[j] :
              cellValidatorOutcome(validationConfig, k) = "throws" =>
                  \E n \in 1..Len(validator.results[j].errors) :
                      LET e == validator.results[j].errors[n]
                      IN  /\ e.sheetName = PARSED_SHEET_NAME
                          /\ e.rowIndex = j - 1
                          /\ e.columnName = <<k>>
                          /\ e.message = "Cell validation error"
        /\ (pc = "processed" /\ validationConfig.enableTypeValidation) =>
              Len(validator.results) = Len(pipelineRows)

\* the row validator threw on the first row and the cell validator on its
\* first field; its second field and the second row were validated all the
\* same
C19_Witness ==
    /\ pc = "processed"
    /\ validationConfig.enableTypeValidation
    /\ Len(pipelineRows) = 2
    /\ DOMAIN pipelineRows[1] = {<<"x">>, <<"y">>}
    /\ rowValidatorOutcome(validationConfig, 0) = "throws"
    /\ cellValidatorOutcome(validationConfig, <<"x">>) = "throws"
    /\ Len(validator.results[1].errors) = 2
    /\ C19_Count(<<"cell", 0, <<<<"y">>>>>>) = 1
    /\ C19_Count(<<"row", 1, <<>>>>) = 1

\* a validator reports the row invalid, or throws
C20_Rejected(j) ==
    \/ rowValidatorOutcome(validationConfig, j - 1) \in {"invalid", "invalidWithoutErrors", "throws"}
    \/ \E k \in DOMAIN pipelineRows[j] :
          cellValidatorOutcome(validationConfig, k) \in {"invalid", "throws"}

RECURSIVE C20_Accepted(_)
C20_Accepted(n) ==
    IF n = 0 THEN <<>>
    ELSE IF C20_Rejected(n) THEN C20_Accepted(n - 1)
         ELSE Append(C20_Accepted(n - 1), pipelineRows[n])

\* C20: with type validation enabled and continueOnValidationError false a
\* row is left out of the output if and only if its row validator or one of
\* its cell validators reports it invalid or throws; with
\* continueOnValidationError true validation leaves no row out.
C20_ExcludedIffRejected ==
    (pc = "processed" /\ validationConfig.enableTypeValidation) =>
        pipelineOutput =
            IF validationConfig.continueOnValidationError THEN pipelineRows
            ELSE C20_Accepted(Len(pipelineRows))

\* the warnings the validators produced during the run
C21_Warnings ==
    UNION {{validator.results[j].warnings[n] : n \in 1..Len(validator.results[j].warnings)} :
              j \in 1..Len(validator.results)}

\* what the metadata of the result hold
C21_InMetadata ==
    {pipelineMetadata.validationErrors[n] : n \in 1..Len(pipelineMetadata.validationErrors)}

\* C21: warnings of the row and cell validators never make the conversion
\* fail and never exclude a row, and every warning produced during a run is
\* available in the metadata of the result of that run.
C21_WarningsInMetadata ==
    /\ (validator # <<>> /\ pc = "failed") => C21_Warnings = {}
    /\ (pc \in {"processed", "finalized"} /\ validationConfig.enableTypeValidation) =>
          \A j \in 1..Len(pipelineRows) :
              (/\ rowValidatorOutcome(validationConfig, j - 1) \in {"valid", "validWithWarning"}
               /\ \A k \in DOMAIN pipelineRows[j] :
                     cellValidatorOutcome(validationConfig, k) \in {"valid", "validWithWarning"})
                  => \E i \in 1..Len(pipelineOutput) : pipelineOutput[i] = pipelineRows[j]
    /\ pc = "finalized" => C21_Warnings \subseteq C21_InMetadata

\* the value at a path of keys in the fields of a container
RECURSIVE C22_At(_, _)
C22_At(fields, path) ==
    IF Head(path) \notin DOMAIN fields THEN [t |-> "missing", v |-> <<>>]
    ELSE IF Len(path) = 1 THEN fields[Head(path)]
    ELSE IF fields[Head(path)].t \notin {"object", "array"}
         THEN [t |-> "missing", v |-> <<>>]
         ELSE C22_At(fields[Head(path)].v, Tail(path))

\* a segment is purely numeric
C22_Numeric(segment) ==
    segment # <<>> /\ \A i \in 1..Len(segment) : segment[i] \in DecimalDigits

C22_Kind(nextSegment) == IF C22_Numeric(nextSegment) THEN "array" ELSE "object"

\* the place of the leaf of a path: a numeric leaf is an index
C22_LeafPath(path) ==
    IF C22_Numeric(path[Len(path)])
    THEN SubSeq(path, 1, Len(path) - 1) \o <<parseIntKey(path[Len(path)])>>
    ELSE path

C22_FirstRowDotted == \E key \in DOMAIN flatRows[1] : Contains(key, {DOT})

\* the keys of a row that pass through the container at a path
C22_Through(row, prefix) ==
    {k \in DOMAIN row :
        LET path == split(k, DOT)
        IN  Len(path) > Len(prefix) /\ SubSeq(path, 1, Len(prefix)) = prefix}

C23_Earlier(i) ==
    Cardinality({j \in 1..(i - 1) :
        normalizeHeaderForProcessing(utilityCall.headers[j])
            = normalizeHeaderForProcessing(utilityCall.headers[i])})

\* C23: ensureUniqueHeaders returns a list of the same length whose entries
\* are pairwise distinct; the first occurrence of a header is returned as it
\* is and the k-th later occurrence of a header that normalizes identically
\* is returned with _k appended.
C23_UniqueHeaders ==
    (pc = "done" /\ utilityCall.op = "ensureUniqueHeaders") =>
        LET headers == utilityCall.headers
            unique == utilityState.result
        IN  /\ Len(unique) = Len(headers)
            /\ \A i, j \in 1..Len(unique) : i # j => unique[i] # unique[j]
            /\ \A i \in 1..Len(headers) :
                  unique[i] = IF C23_Earlier(i) = 0 THEN headers[i]
                              ELSE headers[i] \o <<"_">> \o DecimalText(C23_Earlier(i))

\* C24: in a workbook conversion with a custom valueTransformer and/or
\* headerTransformer, every key of an output row is the headerTransformer
\* applied exactly once to the raw header text of a column, and the value
\* under it is the valueTransformer applied exactly once to that column's
\* cell value with that key as second argument (null for an absent cell)
C24_OnceKey(col) ==
    headerTransformer(utilityCall.config.headerTransformer, utilityCall.headers[col])

C24_OnceValue(col) ==
    IF utilityCall.cells[col] = <<>>
    THEN {NullValue, valueTransformer(utilityCall.config.valueTransformer, NullValue,
                                      C24_OnceKey(col))}
    ELSE {valueTransformer(utilityCall.config.valueTransformer,
                           utilityCall.cells[col][1], C24_OnceKey(col))}

C24_TransformersAppliedOnce ==
    (/\ utilityCall # <<>>
     /\ utilityCall.op = "convertWorkbook"
     /\ pc = "done"
     /\ hasCustomTransformers(utilityCall.config))
    => \A i \in 1..Len(utilityState.processedData) :
         \A k \in DOMAIN utilityState.processedData[i] :
            \E col \in 1..Len(utilityCall.headers) :
               /\ k = C24_OnceKey(col)
               /\ utilityState.processedData[i][k] \in C24_OnceValue(col)

\* C25: for every initial batch size of at least 1 and whatever sizes
\* getOptimalBatchSize returns, processBatches has passed every item to the
\* processor exactly once and in input order when it returns
C25_InitialSizePositive ==
    /\ utilityCall # <<>>
    /\ utilityCall.op = "processBatches"
    /\ utilityCall.batchSize[1] >= 1

C25_EveryItemOnce ==
    (C25_InitialSizePositive /\ pc = "done")
    => utilityState.passed = [k \in 1..Len(utilityCall.data) |-> k]

\* C26: for every input and every configured batch size of at least 1 the
\* streaming pipeline returns the data the standard pipeline returns for
\* the same rows
C26_Streamed ==
    /\ utilityCall # <<>>
    /\ utilityCall.op = "processDataThroughStreamingPipeline"
    /\ utilityCall.batchSize # <<>>
    /\ utilityCall.batchSize[1] >= 1
    /\ pc = "done"

C26_SameAsStandard ==
    C26_Streamed
    => utilityState.processedData
         = processDataThroughPipeline(utilityCall.data, normalizeConfiguration(NoConfig))

\* the same with a monitor that never changes the batch size
C26_SameAsStandardAtConstantSize ==
    (C26_Streamed /\ utilityState.batchSize = Num(utilityCall.batchSize[1])
                  /\ utilityState.passed = [k \in 1..Len(utilityCall.data) |-> k])
    => utilityState.processedData
         = processDataThroughPipeline(utilityCall.data, normalizeConfiguration(NoConfig))

\* the same without a configured batch size
C26_SameAsStandardByDefault ==
    (/\ utilityCall # <<>>
     /\ utilityCall.op = "processDataThroughStreamingPipeline"
     /\ utilityCall.batchSize = <<>>
     /\ pc = "done")
    => utilityState.processedData
         = processDataThroughPipeline(utilityCall.data, normalizeConfiguration(NoConfig))

\* C27: whatever the keys of the rows, createNestedObjects writes only into
\* the row it is building: it adds no property to Object.prototype nor to
\* the function Object, which every other object of the program shares
C27_WritesOnlyTheRow ==
    (utilityCall # <<>> /\ utilityCall.op = "createNestedObjects")
    => /\ utilityState.shared.objectPrototype = <<>>
       /\ utilityState.shared.objectConstructor = <<>>

\* C28: the batching loops end for every list and every configured
\* concurrencyLimit or batchSize.  A loop "for (i = 0; i < n; i += step)"
\* whose step is the same at every turn ends exactly when each turn that
\* finds items left moves i forward (or makes it NaN): while a turn is due,
\* the step is positive or not a number
C28_ConstantStep ==
    /\ utilityCall # <<>>
    /\ utilityCall.op \in {"processBatches", "processSheetsWithConcurrency"}
    /\ ~utilityCall.monitor

C28_LoopsAdvance ==
    (C28_ConstantStep /\ pc = "batching"
                      /\ loopContinues(utilityState.i, utilityCall.data))
    => (IsNumber(utilityState.batchSize) => utilityState.batchSize[1] > 0)

\* C29: on a CsvParser constructed without a fieldDelimiter, parse leaves
\* the configuration as it was, and what each call returns is the content
\* parsed with the delimiter detected from that content
C29_WithoutDelimiter ==
    /\ utilityCall # <<>>
    /\ utilityCall.op = "CsvParser"
    /\ utilityCall.fieldDelimiter = ""

C29_ParseLeavesConfiguration ==
    C29_WithoutDelimiter
    => /\ utilityState.configuration.fieldDelimiter = ""
       /\ \A k \in 1..Len(utilityState.returned) :
             utilityState.returned[k]
               = parseCsvInternal(utilityCall.contents[k],
                                  detectOptimalDelimiter(utilityCall.contents[k]))

\* the second half alone: every call parses with its own content's delimiter
C29_EachCallDetects ==
    C29_WithoutDelimiter
    => \A k \in 1..Len(utilityState.returned) :
          utilityState.returned[k]
            = parseCsvInternal(utilityCall.contents[k],
                               detectOptimalDelimiter(utilityCall.contents[k]))

\* C30: in the result of a workbook conversion the metadata agrees with the
\* data: sheetsProcessed has one entry per sheet of the data, each with the
\* sheet's row count and, as index, its position in the resolved selection;
\* totalSheets is the number of sheets of the data and totalRows the number
\* of their rows, also when the selection names a sheet more than once
C30_WorkbookResult ==
    /\ pc = "returned"
    /\ outcome = "resolved"
    /\ route = "workbook"

C30_SheetsOfData ==
    IF result.data.shape = "object"
    THEN result.data.sheets
    ELSE (result.metadata[1].sheetsProcessed[1].name :> result.data.rows)

RECURSIVE C30_TotalRows(_, _)
C30_TotalRows(sheets, names) ==
    IF names = {} THEN 0
    ELSE LET n == CHOOSE m \in names : TRUE
         IN  Len(sheets[n]) + C30_TotalRows(sheets, names \ {n})

C30_MetadataAgreesWithData ==
    C30_WorkbookResult
    => LET metadata == result.metadata[1]
           sheets == C30_SheetsOfData
           names == DOMAIN sheets
       IN  /\ Len(metadata.sheetsProcessed) = Cardinality(names)
           /\ \A i \in 1..Len(metadata.sheetsProcessed) :
                 LET entry == metadata.sheetsProcessed[i]
                 IN  /\ entry.name \in names
                     /\ entry.rowCount = Len(sheets[entry.name])
                     /\ entry.index = i - 1
           /\ metadata.totalSheets = Cardinality(names)
           /\ metadata.totalRows = C30_TotalRows(sheets, names)
====
